---- MODULE Spec2Model ----
(***************************************************************************)
(* A model of the instagram-clone client: the data-access layer            *)
(* (src/src/hooks/use-mobile.ts, lines 67-443: profilesApi, postsApi,      *)
(* likesApi, commentsApi, followsApi), the tables and constraints of       *)
(* src/supabase/schema.sql, and the view components that call them         *)
(* (PostCard, CommentsDialog, Feed, Profile).                              *)
(*                                                                         *)
(* The remote platform is modelled by its tables.  A network call is two   *)
(* steps: the server evaluates the request against the tables, and later   *)
(* the client's continuation runs with the answer.  React 19 renders       *)
(* synchronously after a discrete event, so an event handler up to its     *)
(* first await, together with the re-render, is one atomic step.           *)
(***************************************************************************)
EXTENDS Integers, Sequences, FiniteSets, TLC

\* ------------------------------------------------------------------ bounds
MaxRows == 3           \* rows (posts, comments, likes) the clients insert in one run
MaxFollowReqs == 2     \* calls of handleFollow awaiting their request at one time
MaxPosts == 2          \* posts created in one run
PostsPerPage == 1      \* page size of the feed, scaled down from its 10 to fit MaxPosts
MaxFeedReqs == 1       \* calls of loadPosts and handleDelete awaiting their request
MaxDlgReqs == 1        \* calls of handleSubmit and handleDelete awaiting their request
MaxAuthReqs == 2       \* calls of signOut, and of fetchProfile, awaiting their request

Users == {"u1", "u2"}
NoUser == "none"       \* null / undefined user
Usernames == Users \cup {"nobody"}   \* route names; nobody has no profile row
\* The `data` of a query answer: null, or an array of rows.
Null == [isNull |-> TRUE, rows |-> <<>>]
Rows(s) == [isNull |-> FALSE, rows |-> s]
PostIds == 1..MaxRows
CommentIds == 1..MaxRows
Limits == {1, 2}       \* page sizes tried
Offsets == {0, 1}      \* page offsets tried

VARIABLES
  \* ---- the tables of schema.sql
  posts,        \* set of rows [id, user_id, created_at]
  likes,        \* bag of rows: [<<post_id, user_id>> -> number of rows]
  comments,     \* set of rows [id, post_id, user_id, created_at]
  follows,      \* bag of rows: [<<follower_id, following_id>> -> number of rows]
  nextPostId,   \* id (and creation time) of the next post row
  nextCommentId,\* id (and creation time) of the next comment row
  \* ---- one call of postsApi.getPosts
  gpPc,         \* "idle" | "posts" | "likes" | "comments" | "userLikes" | "done" | "threw"
  gpArgs,       \* [limit, offset, userId, currentUserId]
  gpData,       \* `data` of the posts query (Rows of post rows, or Null)
  gpLikesData,  \* `data` of the likes query (Rows of post ids, or Null)
  gpCommentsData, \* `data` of the comments query (Rows of post ids, or Null)
  gpUserLikes,  \* userLikes: a sequence of post ids
  gpResult,     \* the returned Post[]
  gpQueries,    \* queries issued by this call: [posts, likes, comments, userLikes]
  \* ---- the session store (useAuthStore)
  viewer,       \* user: the signed-in user's id, or NoUser
  authProfile,  \* profile: the cached profile's username, or NoUser
  authSession,  \* session: the user the session belongs to, or NoUser
  authSignOuts, \* calls of signOut awaiting supabase.auth.signOut(): "sent", "ok", "thrown"
  authFetches,  \* calls of fetchProfile awaiting their query: [user, status]
  authLast,     \* the call of the store that has just returned, or "none"
  \* ---- one PostCard
  cardPost,     \* id of the post the mounted card shows, 0 before it is mounted
  cardIsLiked,  \* useState isLiked
  cardLikesCount, \* useState likesCount
  cardIsLiking, \* useState isLiking
  cardReqs,     \* running handleLike calls, each awaiting its like/unlike request
  cardIgnored,  \* the last call of handleLike returned at its guard
  cardLast,     \* the last toggle that settled: how, and what it reported
  \* ---- one Profile page
  profPc,       \* "closed" | "profile" | "posts" | "counts" | "following" | "shown" | "left"
  profRoute,    \* the username of the route
  profProfile,  \* useState profile: the id of the loaded profile, or NoUser
  profIsFollowing,    \* useState isFollowing
  profFollowersCount, \* useState followersCount
  profReqs,     \* running handleFollow calls, each awaiting its request
  profIgnored,  \* the last call of handleFollow returned at its guard
  profLoading,  \* useState loading
  profQueries,  \* the requests loadProfile has sent since the page was entered
  profLast,     \* the last toggle that settled: how, and what it reported
  lastFollowCall, \* the last direct call of followsApi.followUser and its outcome
  \* ---- the Feed page
  feedMounted,  \* the component is mounted
  feedPosts,    \* useState posts: a sequence of rows [id, user_id]
  feedLoading,  \* useState loading
  feedHasMore,  \* useState hasMore
  feedPage,     \* useState page
  feedLoads,    \* running loadPosts calls, each awaiting getPosts
  feedDels,     \* running handleDelete calls of the cards, each awaiting deletePost
  feedLast,     \* how the last deletion, or the reload after it, ended; reset by other loads
  \* ---- one CommentsDialog
  dlgOpen,      \* the card renders the dialog (showComments)
  dlgPost,      \* postId of the dialog, 0 while it is not rendered
  dlgComments,  \* useState comments: a sequence of rows [id, user_id, created_at]
  dlgNewComment,\* useState newComment
  dlgLoading,   \* useState loading
  dlgSubmitting,\* useState submitting
  dlgReqs,      \* running calls of the dialog's handlers, each awaiting its request
  dlgLast,      \* what the step of the dialog just taken ended, how, and what it reported
  \* ---- one call of likesApi.isLiked or followsApi.isFollowing
  lkPc,         \* "idle" | "sent" | "answered" | "returned" | "threw"
  lkArgs,       \* [api, a, b]: isLiked(postId, userId) or isFollowing(followerId, followingId)
  lkAnswer,     \* { data, error } of the query: [data, error]
  lkResult      \* the boolean the call returned

storeVars == <<posts, likes, comments, follows, nextPostId, nextCommentId>>
gpVars == <<gpPc, gpArgs, gpData, gpLikesData, gpCommentsData, gpUserLikes,
            gpResult, gpQueries>>
authVars == <<viewer, authProfile, authSession, authSignOuts, authFetches, authLast>>
cardVars == <<cardPost, cardIsLiked, cardLikesCount, cardIsLiking, cardReqs,
              cardIgnored, cardLast>>
profVars == <<profPc, profRoute, profProfile, profIsFollowing, profFollowersCount,
              profReqs, profIgnored, profLast, lastFollowCall, profLoading, profQueries>>
profLoadVars == <<profLoading, profQueries>>
feedVars == <<feedMounted, feedPosts, feedLoading, feedHasMore, feedPage, feedLoads,
              feedDels, feedLast>>
dlgVars == <<dlgOpen, dlgPost, dlgComments, dlgNewComment, dlgLoading, dlgSubmitting,
             dlgReqs, dlgLast>>
lkVars == <<lkPc, lkArgs, lkAnswer, lkResult>>
vars == <<storeVars, gpVars, authVars, cardVars, profVars, feedVars, dlgVars, lkVars>>
\* everything but the tables
clientVars == <<gpVars, authVars, cardVars, profVars, feedVars, dlgVars, lkVars>>
\* everything but the tables and one component
nonGpVars == <<authVars, cardVars, profVars, feedVars, dlgVars, lkVars>>
nonAuthVars == <<gpVars, cardVars, profVars, feedVars, dlgVars, lkVars>>
nonCardVars == <<gpVars, authVars, profVars, feedVars, dlgVars, lkVars>>
nonProfVars == <<gpVars, authVars, cardVars, feedVars, dlgVars, lkVars>>
nonFeedVars == <<gpVars, authVars, cardVars, profVars, dlgVars, lkVars>>
nonDlgVars == <<gpVars, authVars, cardVars, profVars, feedVars, lkVars>>
nonLkVars == <<gpVars, authVars, cardVars, profVars, feedVars, dlgVars>>

\* ------------------------------------------------------------ sequences
Range(s) == {s[i] : i \in 1..Len(s)}

\* Array.prototype.filter
RECURSIVE SelectSeqBy(_, _)
SelectSeqBy(s, keep) ==
  IF s = <<>> THEN <<>>
  ELSE IF Head(s) \in keep THEN <<Head(s)>> \o SelectSeqBy(Tail(s), keep)
       ELSE SelectSeqBy(Tail(s), keep)

\* Array.prototype.slice(from0, to0 + 1) on 0-based inclusive positions, as
\* PostgREST's range(from, to) cuts an ordered answer.
Slice(s, from0, to0) ==
  LET lo == from0 + 1
      hi == IF to0 + 1 < Len(s) THEN to0 + 1 ELSE Len(s)
  IN IF lo > hi THEN <<>> ELSE [i \in 1..(hi - lo + 1) |-> s[lo + i - 1]]

\* ------------------------------------------------------------ the tables
\* ORDER BY created_at DESC / ASC over a set of rows with distinct times.
RECURSIVE OrderDesc(_)
OrderDesc(rows) ==
  IF rows = {} THEN <<>>
  ELSE LET r == CHOOSE x \in rows : \A y \in rows : y.created_at <= x.created_at
       IN <<r>> \o OrderDesc(rows \ {r})

RECURSIVE OrderAsc(_)
OrderAsc(rows) ==
  IF rows = {} THEN <<>>
  ELSE LET r == CHOOSE x \in rows : \A y \in rows : x.created_at <= y.created_at
       IN <<r>> \o OrderAsc(rows \ {r})

EmptyBag(keys) == [k \in keys |-> 0]

\* The rows of a bag table as a sequence of keys, one entry per row.
RECURSIVE BagRows(_, _)
BagRows(bag, keys) ==
  IF keys = {} THEN <<>>
  ELSE LET k == CHOOSE x \in keys : TRUE
       IN [i \in 1..bag[k] |-> k] \o BagRows(bag, keys \ {k})

\* posts: SELECT ... ORDER BY created_at DESC, restricted to user_id when the
\* filter is present, cut to range(offset, offset + limit - 1).
PostsQuery(limit, offset, userId) ==
  LET rows == IF userId # NoUser THEN {r \in posts : r.user_id = userId} ELSE posts
  IN Slice(OrderDesc(rows), offset, offset + limit - 1)

\* likes: SELECT post_id WHERE post_id IN postIds
LikesQuery(postIds) ==
  LET rows == BagRows(likes, {k \in DOMAIN likes : k[1] \in postIds})
  IN [i \in 1..Len(rows) |-> rows[i][1]]

\* comments: SELECT post_id WHERE post_id IN postIds
CommentsQuery(postIds) ==
  LET rows == OrderAsc({c \in comments : c.post_id \in postIds})
  IN [i \in 1..Len(rows) |-> rows[i].post_id]

\* likes: SELECT post_id WHERE post_id IN postIds AND user_id = userId
UserLikesQuery(postIds, userId) ==
  LET rows == BagRows(likes, {k \in DOMAIN likes : k[1] \in postIds /\ k[2] = userId})
  IN [i \in 1..Len(rows) |-> rows[i][1]]

InitStore ==
  /\ posts = {}
  /\ likes = EmptyBag(PostIds \X Users)
  /\ comments = {}
  /\ follows = EmptyBag(Users \X Users)
  /\ nextPostId = 1
  /\ nextCommentId = 1

\* ------------------------------------------------- server side of the API
\* postsApi.createPost: INSERT INTO posts; the policy wants auth.uid() = user_id.
ServerCreatePost(u) ==
  /\ posts' = posts \cup {[id |-> nextPostId, user_id |-> u, created_at |-> nextPostId]}
  /\ nextPostId' = nextPostId + 1
  /\ UNCHANGED <<likes, comments, follows, nextCommentId>>

\* postsApi.deletePost: DELETE FROM posts WHERE id = p, restricted by the
\* policy to the caller's own rows; likes and comments cascade.
ServerDeletePost(p, caller) ==
  /\ \E r \in posts : r.id = p /\ r.user_id = caller
  /\ posts' = {r \in posts : r.id # p}
  /\ likes' = [k \in DOMAIN likes |-> IF k[1] = p THEN 0 ELSE likes[k]]
  /\ comments' = {c \in comments : c.post_id # p}
  /\ UNCHANGED <<follows, nextPostId, nextCommentId>>

\* Mutant of LikesInsertAllowed: the likes table without UNIQUE(post_id, user_id).
LikesInsertAllowedNoUnique(p, u) == \E r \in posts : r.id = p

\* likes: UNIQUE(post_id, user_id), post_id REFERENCES posts(id).
LikesInsertAllowed(p, u) ==
  /\ \E r \in posts : r.id = p
  /\ likes[<<p, u>>] = 0

\* likesApi.likePost
ServerLikePost(p, u) ==
  /\ LikesInsertAllowed(p, u)
  /\ likes' = [likes EXCEPT ![<<p, u>>] = @ + 1]
  /\ UNCHANGED <<posts, comments, follows, nextPostId, nextCommentId>>

\* likesApi.unlikePost: DELETE WHERE post_id = p AND user_id = u
ServerUnlikePost(p, u) ==
  /\ likes' = [likes EXCEPT ![<<p, u>>] = 0]
  /\ UNCHANGED <<posts, comments, follows, nextPostId, nextCommentId>>

\* commentsApi.createComment
ServerCreateComment(p, u) ==
  /\ \E r \in posts : r.id = p
  /\ comments' = comments \cup
       {[id |-> nextCommentId, post_id |-> p, user_id |-> u, created_at |-> nextCommentId]}
  /\ nextCommentId' = nextCommentId + 1
  /\ UNCHANGED <<posts, likes, follows, nextPostId>>

\* commentsApi.deleteComment, restricted by the policy to the caller's own rows
ServerDeleteComment(c, caller) ==
  /\ \E r \in comments : r.id = c /\ r.user_id = caller
  /\ comments' = {r \in comments : r.id # c}
  /\ UNCHANGED <<posts, likes, follows, nextPostId, nextCommentId>>

\* ---------------------------------------------------------- other clients
\* Rows inserted so far that still count against MaxRows.
RowsUsed ==
  (nextPostId - 1) + (nextCommentId - 1)
    + Len(BagRows(likes, DOMAIN likes))

\* Requests of other clients reaching the server.  Posts and comments are
\* written between two calls of getPosts; likes are written at any time, also
\* between the queries of one call.
OtherCreatePost ==
  /\ gpPc = "idle" /\ RowsUsed < MaxRows /\ nextPostId <= MaxPosts
  /\ \E u \in Users : ServerCreatePost(u)
  /\ UNCHANGED clientVars
OtherDeletePost ==
  /\ gpPc = "idle"
  /\ \E r \in posts : ServerDeletePost(r.id, r.user_id)
  /\ UNCHANGED clientVars
OtherLikePost ==
  /\ RowsUsed < MaxRows
  /\ \E p \in PostIds, u \in Users : ServerLikePost(p, u)
  /\ UNCHANGED clientVars
OtherUnlikePost ==
  /\ \E p \in PostIds, u \in Users : likes[<<p, u>>] > 0 /\ ServerUnlikePost(p, u)
  /\ UNCHANGED clientVars
OtherCreateComment ==
  /\ gpPc = "idle" /\ RowsUsed < MaxRows
  /\ \E p \in PostIds, u \in Users : ServerCreateComment(p, u)
  /\ UNCHANGED clientVars
OtherDeleteComment ==
  /\ gpPc = "idle"
  /\ \E r \in comments : ServerDeleteComment(r.id, r.user_id)
  /\ UNCHANGED clientVars

\* ------------------------------------------------------ postsApi.getPosts
NoArgs == [limit |-> 1, offset |-> 0, userId |-> NoUser, currentUserId |-> NoUser]
NoQueries == [posts |-> 0, likes |-> 0, comments |-> 0, userLikes |-> 0]

InitGetPosts ==
  /\ gpPc = "idle"
  /\ gpArgs = NoArgs
  /\ gpData = Null
  /\ gpLikesData = Null
  /\ gpCommentsData = Null
  /\ gpUserLikes = <<>>
  /\ gpResult = <<>>
  /\ gpQueries = NoQueries

\* `x || []`
OrEmpty(x) == IF x.isNull THEN <<>> ELSE x.rows

\* Mutant of CountFor: the fold stores 1 instead of adding 1.
RECURSIVE CountForSetOne(_, _)
CountForSetOne(rows, p) ==
  IF rows = <<>> THEN 0
  ELSE IF Head(rows) = p THEN 1 ELSE CountForSetOne(Tail(rows), p)

\* The forEach over the rows of an answer that fills a Map<post_id, number>:
\* the map's entry for post id p after the fold, or 0 when there is none
\* (`map.get(p) || 0`).
RECURSIVE CountFor(_, _)
CountFor(rows, p) ==
  IF rows = <<>> THEN 0
  ELSE (IF Head(rows) = p THEN 1 ELSE 0) + CountFor(Tail(rows), p)

\* Mutant of AttachCounts: the result is built from the entries of the likes
\* count map, so a post without likes is dropped.
AttachCountsFromLikesMap(data, likesData, commentsData, userLikes) ==
  LET kept == SelectSeq(data.rows, LAMBDA post : CountFor(OrEmpty(likesData), post.id) > 0)
  IN [i \in 1..Len(kept) |->
        [id |-> kept[i].id, user_id |-> kept[i].user_id, created_at |-> kept[i].created_at,
         likes_count |-> CountFor(OrEmpty(likesData), kept[i].id),
         comments_count |-> CountFor(OrEmpty(commentsData), kept[i].id),
         is_liked |-> kept[i].id \in Range(userLikes)]]

\* data.map(post => ({...post, likes_count, comments_count, is_liked}))
AttachCounts(data, likesData, commentsData, userLikes) ==
  [i \in 1..Len(data.rows) |->
     [id |-> data.rows[i].id, user_id |-> data.rows[i].user_id,
      created_at |-> data.rows[i].created_at,
      likes_count |-> CountFor(OrEmpty(likesData), data.rows[i].id),
      comments_count |-> CountFor(OrEmpty(commentsData), data.rows[i].id),
      is_liked |-> data.rows[i].id \in Range(userLikes)]]

\* supabase.auth.getUser(), and the posts query is built
GetPostsCall ==
  /\ UNCHANGED nonGpVars
  /\ gpPc = "idle"
  /\ \E l \in Limits, o \in Offsets, uid \in Users \cup {NoUser}, cu \in Users \cup {NoUser} :
       gpArgs' = [limit |-> l, offset |-> o, userId |-> uid, currentUserId |-> cu]
  /\ gpPc' = "posts"
  /\ gpData' = Null /\ gpLikesData' = Null /\ gpCommentsData' = Null
  /\ gpUserLikes' = <<>> /\ gpResult' = <<>>
  /\ gpQueries' = NoQueries
  /\ UNCHANGED storeVars

\* Mutant of GetPostsPostsAnswer: no early return on an empty page.
GetPostsPostsAnswerNoShortCircuit ==
  /\ UNCHANGED nonGpVars
  /\ gpPc = "posts"
  /\ gpData' \in {Rows(PostsQuery(gpArgs.limit, gpArgs.offset, gpArgs.userId)), Null}
  /\ gpPc' = "likes"
  /\ gpQueries' = [gpQueries EXCEPT !.posts = @ + 1]
  /\ UNCHANGED <<storeVars, gpArgs, gpLikesData, gpCommentsData, gpUserLikes, gpResult>>

\* `await query` answers with rows (or with a null data)
GetPostsPostsAnswer ==
  /\ UNCHANGED nonGpVars
  /\ gpPc = "posts"
  /\ \E data \in {Rows(PostsQuery(gpArgs.limit, gpArgs.offset, gpArgs.userId)), Null} :
       /\ gpData' = data
       /\ IF data.isNull \/ Len(data.rows) = 0
          THEN gpPc' = "done" /\ gpResult' = <<>>
          ELSE gpPc' = "likes" /\ UNCHANGED gpResult
  /\ gpQueries' = [gpQueries EXCEPT !.posts = @ + 1]
  /\ UNCHANGED <<storeVars, gpArgs, gpLikesData, gpCommentsData, gpUserLikes>>

\* `await query` answers with an error: `if (error) throw error`
GetPostsPostsError ==
  /\ UNCHANGED nonGpVars
  /\ gpPc = "posts"
  /\ gpPc' = "threw"
  /\ gpQueries' = [gpQueries EXCEPT !.posts = @ + 1]
  /\ UNCHANGED <<storeVars, gpArgs, gpData, gpLikesData, gpCommentsData, gpUserLikes, gpResult>>

\* data.map(post => post.id), used as the IN list
PostIdsOf(data) == {data.rows[i].id : i \in 1..Len(data.rows)}

\* Mutant of GetPostsLikes: one likes query per post of the page (N+1).
GetPostsLikesPerPost ==
  /\ UNCHANGED nonGpVars
  /\ gpPc = "likes"
  /\ gpLikesData' \in {Rows(LikesQuery(PostIdsOf(gpData))), Null}
  /\ gpQueries' = [gpQueries EXCEPT !.likes = @ + Len(gpData.rows)]
  /\ gpPc' = "comments"
  /\ UNCHANGED <<storeVars, gpArgs, gpData, gpCommentsData, gpUserLikes, gpResult>>

\* the likes query; its error is not looked at, its data is then null
GetPostsLikes ==
  /\ UNCHANGED nonGpVars
  /\ gpPc = "likes"
  /\ gpLikesData' \in {Rows(LikesQuery(PostIdsOf(gpData))), Null}
  /\ gpQueries' = [gpQueries EXCEPT !.likes = @ + 1]
  /\ gpPc' = "comments"
  /\ UNCHANGED <<storeVars, gpArgs, gpData, gpCommentsData, gpUserLikes, gpResult>>

\* Mutant of GetPostsComments: the viewer-likes query is issued without a
\* current user as well.
GetPostsCommentsThenUserLikes ==
  /\ UNCHANGED nonGpVars
  /\ gpPc = "comments"
  /\ gpCommentsData' \in {Rows(CommentsQuery(PostIdsOf(gpData))), Null}
  /\ gpPc' = "userLikes"
  /\ gpQueries' = [gpQueries EXCEPT !.comments = @ + 1]
  /\ UNCHANGED <<storeVars, gpArgs, gpData, gpLikesData, gpUserLikes, gpResult>>

\* the comments query; without a current user the result is built right after
GetPostsComments ==
  /\ UNCHANGED nonGpVars
  /\ gpPc = "comments"
  /\ \E cd \in {Rows(CommentsQuery(PostIdsOf(gpData))), Null} :
       /\ gpCommentsData' = cd
       /\ IF gpArgs.currentUserId # NoUser
          THEN gpPc' = "userLikes" /\ UNCHANGED gpResult
          ELSE /\ gpPc' = "done"
               /\ gpResult' = AttachCounts(gpData, gpLikesData, cd, gpUserLikes)
  /\ gpQueries' = [gpQueries EXCEPT !.comments = @ + 1]
  /\ UNCHANGED <<storeVars, gpArgs, gpData, gpLikesData, gpUserLikes>>

\* the current user's likes, then the result is built
GetPostsUserLikes ==
  /\ UNCHANGED nonGpVars
  /\ gpPc = "userLikes"
  /\ \E ul \in {Rows(UserLikesQuery(PostIdsOf(gpData), gpArgs.currentUserId)), Null} :
       /\ gpUserLikes' = OrEmpty(ul)
       /\ gpResult' = AttachCounts(gpData, gpLikesData, gpCommentsData, OrEmpty(ul))
  /\ gpQueries' = [gpQueries EXCEPT !.userLikes = @ + 1]
  /\ gpPc' = "done"
  /\ UNCHANGED <<storeVars, gpArgs, gpData, gpLikesData, gpCommentsData>>

\* the caller takes the result (or the exception)
GetPostsReturn ==
  /\ UNCHANGED nonGpVars
  /\ gpPc \in {"done", "threw"}
  /\ gpPc' = "idle"
  /\ gpArgs' = NoArgs
  /\ gpData' = Null /\ gpLikesData' = Null /\ gpCommentsData' = Null
  /\ gpUserLikes' = <<>> /\ gpResult' = <<>>
  /\ gpQueries' = NoQueries
  /\ UNCHANGED storeVars

\* ------------------------------------------------------------- PostCard
NoToggle == [outcome |-> "none", before |-> [liked |-> FALSE, count |-> 0], effects |-> {}]

InitAuth ==
  /\ viewer = NoUser
  /\ authProfile = NoUser
  /\ authSession = NoUser
  /\ authSignOuts = <<>>
  /\ authFetches = <<>>
  /\ authLast = "none"

InitCard ==
  /\ cardPost = 0
  /\ cardIsLiked = FALSE
  /\ cardLikesCount = 0
  /\ cardIsLiking = FALSE
  /\ cardReqs = <<>>
  /\ cardIgnored = FALSE
  /\ cardLast = NoToggle

\* useAuthStore.setUser(user) after sign-in
StoreSetUser ==
  /\ viewer = NoUser
  /\ viewer' \in Users
  /\ authLast' = "none"
  /\ UNCHANGED <<storeVars, nonAuthVars, authProfile, authSession, authSignOuts, authFetches>>

\* The card is mounted with a post returned by getPosts:
\* useState(post.is_liked || false), useState(post.likes_count || 0).  The
\* snapshot may be stale, and its two fields come from two queries, so every
\* pair of values occurs.
CardMount ==
  /\ cardPost = 0
  /\ \E r \in posts : cardPost' = r.id
  /\ cardIsLiked' \in BOOLEAN
  /\ cardLikesCount' \in 0..MaxRows
  /\ UNCHANGED <<storeVars, nonCardVars, cardIsLiking, cardReqs, cardIgnored,
                 cardLast>>

\* Mutant of LikeGuard: no re-entrancy guard.
LikeGuardWithoutPending == viewer = NoUser

\* `if (!user || isLiking) return`
LikeGuard == viewer = NoUser \/ cardIsLiking

\* Mutant of OptimisticCount: the count is left for the request to settle.
OptimisticCountLate(isLiked, likesCount) == likesCount

\* setLikesCount(isLiked ? likesCount - 1 : likesCount + 1)
OptimisticCount(isLiked, likesCount) ==
  IF isLiked THEN likesCount - 1 ELSE likesCount + 1

\* handleLike up to its await: the guard, the captured values, the optimistic
\* update, and the request it sends.
HandleLike ==
  /\ cardPost # 0
  /\ IF LikeGuard
     THEN /\ cardIgnored' = TRUE
          /\ UNCHANGED <<cardIsLiked, cardLikesCount, cardIsLiking, cardReqs, cardLast>>
     ELSE /\ cardIgnored' = FALSE
          /\ cardIsLiking' = TRUE
          /\ cardIsLiked' = ~cardIsLiked
          /\ cardLikesCount' = OptimisticCount(cardIsLiked, cardLikesCount)
          /\ cardReqs' = Append(cardReqs,
                 [op |-> IF cardIsLiked THEN "unlike" ELSE "like",
                  user |-> viewer,
                  previousLiked |-> cardIsLiked,
                  previousCount |-> cardLikesCount,
                  before |-> [liked |-> cardIsLiked, count |-> cardLikesCount],
                  status |-> "sent"])
          /\ cardLast' = NoToggle
  /\ UNCHANGED <<storeVars, nonCardVars, cardPost>>

RemoveAt(s, i) == [j \in 1..(Len(s) - 1) |-> IF j < i THEN s[j] ELSE s[j + 1]]

\* The request reaches the server: likePost inserts unless the constraints of
\* the likes table reject it, unlikePost deletes.  The answer may still be
\* lost on its way back, which the client sees as an error.
CardRequestServed ==
  \E i \in 1..Len(cardReqs), delivered \in BOOLEAN :
    LET req == cardReqs[i] IN
    /\ req.status = "sent"
    /\ IF req.op = "like"
       THEN IF LikesInsertAllowed(cardPost, req.user)
            THEN /\ ServerLikePost(cardPost, req.user)
                 /\ cardReqs' = [cardReqs EXCEPT ![i].status =
                                   IF delivered THEN "ok" ELSE "error"]
            ELSE /\ UNCHANGED storeVars
                 /\ cardReqs' = [cardReqs EXCEPT ![i].status = "error"]
       ELSE /\ ServerUnlikePost(cardPost, req.user)
            /\ cardReqs' = [cardReqs EXCEPT ![i].status =
                              IF delivered THEN "ok" ELSE "error"]
    /\ UNCHANGED <<nonCardVars, cardPost, cardIsLiked, cardLikesCount, cardIsLiking,
                   cardIgnored, cardLast>>

\* The request never reaches the server.
CardRequestLost ==
  \E i \in 1..Len(cardReqs) :
    /\ cardReqs[i].status = "sent"
    /\ cardReqs' = [cardReqs EXCEPT ![i].status = "error"]
    /\ UNCHANGED <<storeVars, nonCardVars, cardPost, cardIsLiked, cardLikesCount,
                   cardIsLiking, cardIgnored, cardLast>>

\* The await resolves: only the finally block runs.
CardLikeCommitted ==
  \E i \in 1..Len(cardReqs) :
    /\ cardReqs[i].status = "ok"
    /\ cardIsLiking' = FALSE
    /\ cardReqs' = RemoveAt(cardReqs, i)
    /\ cardLast' = [outcome |-> "committed", before |-> cardReqs[i].before, effects |-> {}]
    /\ UNCHANGED <<storeVars, nonCardVars, cardPost, cardIsLiked, cardLikesCount,
                   cardIgnored>>

\* Mutant of CardLikeFailed: the flag is reverted, the count is not.
CardLikeFailedCountKept ==
  \E i \in 1..Len(cardReqs) :
    /\ cardReqs[i].status = "error"
    /\ cardIsLiked' = cardReqs[i].previousLiked
    /\ cardIsLiking' = FALSE
    /\ cardReqs' = RemoveAt(cardReqs, i)
    /\ cardLast' = [outcome |-> "reverted", before |-> cardReqs[i].before,
                    effects |-> {"console.error"}]
    /\ UNCHANGED <<storeVars, nonCardVars, cardPost, cardLikesCount, cardIgnored>>

\* Mutant of CardLikeFailed: no finally block, the failure path leaves isLiking set.
CardLikeFailedStaysPending ==
  \E i \in 1..Len(cardReqs) :
    /\ cardReqs[i].status = "error"
    /\ cardIsLiked' = cardReqs[i].previousLiked
    /\ cardLikesCount' = cardReqs[i].previousCount
    /\ cardReqs' = RemoveAt(cardReqs, i)
    /\ cardLast' = [outcome |-> "reverted", before |-> cardReqs[i].before,
                    effects |-> {"console.error"}]
    /\ UNCHANGED <<storeVars, nonCardVars, cardPost, cardIgnored, cardIsLiking>>

\* The await rejects: the catch block reverts and logs, then the finally block.
CardLikeFailed ==
  \E i \in 1..Len(cardReqs) :
    /\ cardReqs[i].status = "error"
    /\ cardIsLiked' = cardReqs[i].previousLiked
    /\ cardLikesCount' = cardReqs[i].previousCount
    /\ cardIsLiking' = FALSE
    /\ cardReqs' = RemoveAt(cardReqs, i)
    /\ cardLast' = [outcome |-> "reverted", before |-> cardReqs[i].before,
                    effects |-> {"console.error"}]
    /\ UNCHANGED <<storeVars, nonCardVars, cardPost, cardIgnored>>

\* ---------------------------------------------------------------- follows
NoFollowCall == [follower |-> NoUser, following |-> NoUser, outcome |-> "none"]

InitProfile ==
  /\ profPc = "closed"
  /\ profRoute = NoUser
  /\ profProfile = NoUser
  /\ profIsFollowing = FALSE
  /\ profFollowersCount = 0
  /\ profReqs = <<>>
  /\ profIgnored = FALSE
  /\ profLast = NoToggle
  /\ lastFollowCall = NoFollowCall
  /\ profLoading = TRUE
  /\ profQueries = {}

\* Mutant of FollowsInsertAllowed: the table has no CHECK constraint.
FollowsInsertAllowedNoCheck(caller, f, g) ==
  /\ caller = f
  /\ follows[<<f, g>>] = 0

\* follows: the INSERT policy wants auth.uid() = follower_id, the table
\* CHECK (follower_id != following_id) and UNIQUE(follower_id, following_id).
FollowsInsertAllowed(caller, f, g) ==
  /\ caller = f
  /\ f # g
  /\ follows[<<f, g>>] = 0

\* followsApi.followUser: INSERT INTO follows
ServerFollowUser(f, g) ==
  /\ follows' = [follows EXCEPT ![<<f, g>>] = @ + 1]
  /\ UNCHANGED <<posts, likes, comments, nextPostId, nextCommentId>>

\* followsApi.unfollowUser: DELETE WHERE follower_id = f AND following_id = g
ServerUnfollowUser(f, g) ==
  /\ follows' = [follows EXCEPT ![<<f, g>>] = 0]
  /\ UNCHANGED <<posts, likes, comments, nextPostId, nextCommentId>>

\* followsApi.getFollowersCount: the exact count of rows with following_id = g
FollowersCountQuery(g) == Len(BagRows(follows, {k \in DOMAIN follows : k[2] = g}))

\* followsApi.isFollowing: single() gives the row when there is exactly one and
\* the error PGRST116 otherwise, which is turned into false.
IsFollowingQuery(f, g) == follows[<<f, g>>] = 1

\* followsApi.followUser(f, g) called directly by a client signed in as caller:
\* the error of the insert is thrown.
ApiFollowUser ==
  /\ \E caller \in Users, f \in Users, g \in Users :
       IF FollowsInsertAllowed(caller, f, g)
       THEN /\ ServerFollowUser(f, g)
            /\ lastFollowCall' = [follower |-> f, following |-> g, outcome |-> "ok"]
       ELSE /\ UNCHANGED storeVars
            /\ lastFollowCall' = [follower |-> f, following |-> g, outcome |-> "error"]
  /\ UNCHANGED <<nonProfVars, profPc, profRoute, profProfile, profIsFollowing,
                 profFollowersCount, profReqs, profIgnored, profLast, profLoadVars>>

\* followsApi.unfollowUser called by another client
ApiUnfollowUser ==
  /\ \E f \in Users, g \in Users : follows[<<f, g>>] > 0 /\ ServerUnfollowUser(f, g)
  /\ UNCHANGED clientVars

\* useAuthStore.fetchProfile(user.id): the cached profile of the signed-in user
StoreFetchProfile ==
  /\ viewer # NoUser
  /\ authProfile' = viewer
  /\ authLast' = "none"
  /\ UNCHANGED <<storeVars, nonAuthVars, viewer, authSession, authSignOuts, authFetches>>

\* ------------------------------------------------- the session store alone
\* useAuthStore.setSession(session)
StoreSetSession ==
  /\ authSession = NoUser
  /\ authSession' \in Users
  /\ authLast' = "none"
  /\ UNCHANGED <<storeVars, nonAuthVars, viewer, authProfile, authSignOuts, authFetches>>

\* useAuthStore.signOut up to its await (Layout.handleSignOut calls it; the
\* menu item stays usable while a call is pending).
StoreSignOut ==
  /\ Len(authSignOuts) < MaxAuthReqs
  /\ authSignOuts' = Append(authSignOuts, "sent")
  /\ authLast' = "none"
  /\ UNCHANGED <<storeVars, nonAuthVars, viewer, authProfile, authSession, authFetches>>

\* supabase.auth.signOut() settles: it resolves (with or without an error in
\* its answer, which signOut does not read), or it throws.
StoreSignOutServed ==
  \E i \in 1..Len(authSignOuts), outcome \in {"ok", "thrown"} :
    /\ authSignOuts[i] = "sent"
    /\ authSignOuts' = [authSignOuts EXCEPT ![i] = outcome]
    /\ authLast' = "none"
    /\ UNCHANGED <<storeVars, nonAuthVars, viewer, authProfile, authSession, authFetches>>

\* Mutant of StoreSignOutDone: the cached profile is kept.
StoreSignOutDoneKeepsProfile ==
  \E i \in 1..Len(authSignOuts) :
    /\ authSignOuts[i] = "ok"
    /\ authSignOuts' = RemoveAt(authSignOuts, i)
    /\ viewer' = NoUser
    /\ authSession' = NoUser
    /\ authLast' = "signOut"
    /\ UNCHANGED <<storeVars, nonAuthVars, authProfile, authFetches>>

\* signOut after its await: set({ user: null, session: null, profile: null })
StoreSignOutDone ==
  \E i \in 1..Len(authSignOuts) :
    /\ authSignOuts[i] = "ok"
    /\ authSignOuts' = RemoveAt(authSignOuts, i)
    /\ viewer' = NoUser
    /\ authSession' = NoUser
    /\ authProfile' = NoUser
    /\ authLast' = "signOut"
    /\ UNCHANGED <<storeVars, nonAuthVars, authFetches>>

\* signOut whose await threw: the promise of signOut rejects before its set.
StoreSignOutThrown ==
  \E i \in 1..Len(authSignOuts) :
    /\ authSignOuts[i] = "thrown"
    /\ authSignOuts' = RemoveAt(authSignOuts, i)
    /\ authLast' = "signOut rejected"
    /\ UNCHANGED <<storeVars, nonAuthVars, viewer, authProfile, authSession, authFetches>>

\* useAuthStore.fetchProfile(user.id) up to its await: its caller,
\* Profile.handleProfileUpdate, passes the id of the store's user.
FetchProfile ==
  /\ Len(authFetches) < MaxAuthReqs
  /\ viewer # NoUser
  /\ authFetches' = Append(authFetches, [user |-> viewer, status |-> "sent"])
  /\ authLast' = "none"
  /\ UNCHANGED <<storeVars, nonAuthVars, viewer, authProfile, authSession, authSignOuts>>

\* The profiles query is answered with the row of userId, or with an error.
FetchProfileServed ==
  \E i \in 1..Len(authFetches), status \in {"ok", "error"} :
    /\ authFetches[i].status = "sent"
    /\ authFetches' = [authFetches EXCEPT ![i].status = status]
    /\ authLast' = "none"
    /\ UNCHANGED <<storeVars, nonAuthVars, viewer, authProfile, authSession, authSignOuts>>

\* fetchProfile after its await: set({ profile: data })
FetchProfileDone ==
  \E i \in 1..Len(authFetches) :
    /\ authFetches[i].status = "ok"
    /\ authFetches' = RemoveAt(authFetches, i)
    /\ authProfile' = authFetches[i].user
    /\ authLast' = "fetchProfile"
    /\ UNCHANGED <<storeVars, nonAuthVars, viewer, authSession, authSignOuts>>

\* fetchProfile's catch: console.error, set({ profile: null })
FetchProfileFailed ==
  \E i \in 1..Len(authFetches) :
    /\ authFetches[i].status = "error"
    /\ authFetches' = RemoveAt(authFetches, i)
    /\ authProfile' = NoUser
    /\ authLast' = "fetchProfile failed"
    /\ UNCHANGED <<storeVars, nonAuthVars, viewer, authSession, authSignOuts>>

\* ------------------------------------------------------------ Profile page
\* The route /profile/:username is entered: useEffect calls loadProfile, which
\* awaits profilesApi.getProfileByUsername.
ProfileOpen ==
  /\ profPc = "closed"
  /\ profRoute' \in Usernames
  /\ profPc' = "profile"
  /\ profLoading' = TRUE
  /\ profQueries' = {"profile"}
  /\ UNCHANGED <<storeVars, nonProfVars, profProfile, profIsFollowing, profFollowersCount,
                 profReqs, profIgnored, profLast, lastFollowCall>>

\* Mutant of ProfileLoadProfile: the load goes on after a failed lookup.
ProfileLoadProfileGoesOn ==
  /\ profPc = "profile"
  /\ IF profRoute \in Users THEN profProfile' = profRoute ELSE UNCHANGED profProfile
  /\ profPc' = "posts"
  /\ profQueries' = profQueries \cup {"posts"}
  /\ UNCHANGED <<storeVars, nonProfVars, profRoute, profIsFollowing, profFollowersCount,
                 profReqs, profIgnored, profLast, lastFollowCall, profLoading>>

\* getProfileByUsername answers: setProfile, then the posts are asked for; an
\* unknown username is an error of single(), which getProfileByUsername
\* throws: the catch block logs and calls navigate('/'), finally clears loading.
ProfileLoadProfile ==
  /\ profPc = "profile"
  /\ IF profRoute \in Users
     THEN /\ profProfile' = profRoute
          /\ profPc' = "posts"
          /\ profQueries' = profQueries \cup {"posts"}
          /\ UNCHANGED profLoading
     ELSE /\ profPc' = "left"
          /\ profLoading' = FALSE
          /\ UNCHANGED <<profProfile, profQueries>>
  /\ UNCHANGED <<storeVars, nonProfVars, profRoute, profIsFollowing, profFollowersCount,
                 profReqs, profIgnored, profLast, lastFollowCall>>

\* postsApi.getPosts(20, 0, profileData.id) answers; the three counts are asked for
ProfileLoadPosts ==
  /\ profPc = "posts"
  /\ profPc' = "counts"
  /\ profQueries' = profQueries \cup {"counts"}
  /\ UNCHANGED <<storeVars, nonProfVars, profRoute, profProfile, profIsFollowing,
                 profFollowersCount, profReqs, profIgnored, profLast, lastFollowCall,
                 profLoading>>

\* Promise.all of the counts answers; isFollowing is asked for unless the
\* profile is the viewer's own; otherwise the load ends and finally clears loading.
ProfileLoadCounts ==
  /\ profPc = "counts"
  /\ profFollowersCount' = FollowersCountQuery(profProfile)
  /\ IF viewer # NoUser /\ profProfile # viewer
     THEN /\ profPc' = "following"
          /\ profQueries' = profQueries \cup {"isFollowing"}
          /\ UNCHANGED profLoading
     ELSE /\ profPc' = "shown"
          /\ profLoading' = FALSE
          /\ UNCHANGED profQueries
  /\ UNCHANGED <<storeVars, nonProfVars, profRoute, profProfile, profIsFollowing,
                 profReqs, profIgnored, profLast, lastFollowCall>>

\* followsApi.isFollowing answers
ProfileLoadFollowing ==
  /\ profPc = "following"
  /\ profIsFollowing' = IsFollowingQuery(viewer, profProfile)
  /\ profPc' = "shown"
  /\ profLoading' = FALSE
  /\ UNCHANGED <<storeVars, nonProfVars, profRoute, profProfile, profFollowersCount,
                 profReqs, profIgnored, profLast, lastFollowCall, profQueries>>

\* Any awaited request of loadProfile fails: console.error and navigate('/'),
\* and finally clears loading.
ProfileLoadFailed ==
  /\ profPc \in {"profile", "posts", "counts", "following"}
  /\ profPc' = "left"
  /\ profLoading' = FALSE
  /\ UNCHANGED <<storeVars, nonProfVars, profRoute, profProfile, profIsFollowing,
                 profFollowersCount, profReqs, profIgnored, profLast, lastFollowCall,
                 profQueries>>

\* isOwnProfile = currentProfile?.username === username || profile?.id === user?.id
IsOwnProfile == authProfile = profRoute \/ profProfile = viewer

\* `if (!user || !profile || isOwnProfile) return`
FollowGuard == viewer = NoUser \/ profProfile = NoUser \/ IsOwnProfile

\* handleFollow up to its await: the guard, the captured values, the optimistic
\* update, and the request it sends.
HandleFollow ==
  /\ profPc = "shown"
  /\ Len(profReqs) < MaxFollowReqs
  /\ IF FollowGuard
     THEN /\ profIgnored' = TRUE
          /\ UNCHANGED <<profIsFollowing, profFollowersCount, profReqs, profLast>>
     ELSE /\ profIgnored' = FALSE
          /\ profIsFollowing' = ~profIsFollowing
          /\ profFollowersCount' =
               IF profIsFollowing THEN profFollowersCount - 1 ELSE profFollowersCount + 1
          /\ profReqs' = Append(profReqs,
                 [op |-> IF profIsFollowing THEN "unfollow" ELSE "follow",
                  follower |-> viewer,
                  following |-> profProfile,
                  previousFollowing |-> profIsFollowing,
                  previousCount |-> profFollowersCount,
                  before |-> [liked |-> profIsFollowing, count |-> profFollowersCount],
                  status |-> "sent"])
          /\ profLast' = NoToggle
  /\ UNCHANGED <<storeVars, nonProfVars, profPc, profRoute, profProfile, lastFollowCall, profLoadVars>>

\* The request reaches the server, signed in as the follower.
FollowRequestServed ==
  \E i \in 1..Len(profReqs), delivered \in BOOLEAN :
    LET req == profReqs[i] IN
    /\ req.status = "sent"
    /\ IF req.op = "follow"
       THEN IF FollowsInsertAllowed(req.follower, req.follower, req.following)
            THEN /\ ServerFollowUser(req.follower, req.following)
                 /\ profReqs' = [profReqs EXCEPT ![i].status =
                                   IF delivered THEN "ok" ELSE "error"]
            ELSE /\ UNCHANGED storeVars
                 /\ profReqs' = [profReqs EXCEPT ![i].status = "error"]
       ELSE /\ ServerUnfollowUser(req.follower, req.following)
            /\ profReqs' = [profReqs EXCEPT ![i].status =
                              IF delivered THEN "ok" ELSE "error"]
    /\ UNCHANGED <<nonProfVars, profPc, profRoute, profProfile, profIsFollowing,
                   profFollowersCount, profIgnored, profLast, lastFollowCall, profLoadVars>>

\* The request never reaches the server.
FollowRequestLost ==
  \E i \in 1..Len(profReqs) :
    /\ profReqs[i].status = "sent"
    /\ profReqs' = [profReqs EXCEPT ![i].status = "error"]
    /\ UNCHANGED <<storeVars, nonProfVars, profPc, profRoute, profProfile,
                   profIsFollowing, profFollowersCount, profIgnored, profLast,
                   lastFollowCall, profLoadVars>>

\* The await resolves: handleFollow ends.
FollowCommitted ==
  \E i \in 1..Len(profReqs) :
    /\ profReqs[i].status = "ok"
    /\ profReqs' = RemoveAt(profReqs, i)
    /\ profLast' = [outcome |-> "committed", before |-> profReqs[i].before, effects |-> {}]
    /\ UNCHANGED <<storeVars, nonProfVars, profPc, profRoute, profProfile,
                   profIsFollowing, profFollowersCount, profIgnored, lastFollowCall, profLoadVars>>

\* The await rejects: the catch block reverts, logs and alerts.
FollowFailed ==
  \E i \in 1..Len(profReqs) :
    /\ profReqs[i].status = "error"
    /\ profIsFollowing' = profReqs[i].previousFollowing
    /\ profFollowersCount' = profReqs[i].previousCount
    /\ profReqs' = RemoveAt(profReqs, i)
    /\ profLast' = [outcome |-> "reverted", before |-> profReqs[i].before,
                    effects |-> {"console.error", "alert"}]
    /\ UNCHANGED <<storeVars, nonProfVars, profPc, profRoute, profProfile, profIgnored,
                   lastFollowCall, profLoadVars>>

\* --------------------------------------------------------------- Feed page
NoFeedStep == [post |-> 0, outcome |-> "none", effects |-> {}]

InitFeed ==
  /\ feedMounted = FALSE
  /\ feedPosts = <<>>
  /\ feedLoading = TRUE
  /\ feedHasMore = TRUE
  /\ feedPage = 0
  /\ feedLoads = <<>>
  /\ feedDels = <<>>
  /\ feedLast = NoFeedStep

\* The rows getPosts(limit, offset) returns to the feed; of each row the feed
\* model keeps the id and the owner.
FeedRows(limit, offset) ==
  LET rows == PostsQuery(limit, offset, NoUser)
  IN [i \in 1..Len(rows) |-> [id |-> rows[i].id, user_id |-> rows[i].user_id]]

\* loadPosts(pageNum, reset) up to its await; post is the id of the deleted
\* post when handlePostDelete makes the call, and 0 otherwise.
LoadRequest(pageNum, reset, post) ==
  [pageNum |-> pageNum, reset |-> reset, post |-> post, status |-> "sent",
   result |-> <<>>]

\* The calls of the feed and its cards that await a request
FeedReqs == Len(feedLoads) + Len(feedDels)

\* useEffect of the mounted component: loadPosts(0, true)
FeedMount ==
  /\ ~feedMounted
  /\ feedMounted' = TRUE
  /\ feedLoads' = Append(feedLoads, LoadRequest(0, TRUE, 0))
  /\ UNCHANGED <<storeVars, nonFeedVars, feedPosts, feedLoading, feedHasMore, feedPage,
                 feedDels, feedLast>>

\* handleCommentChange, the listener of comment-added and comment-deleted,
\* which the comments dialog of a rendered card dispatches
FeedCommentChange ==
  /\ feedMounted
  /\ Len(feedPosts) > 0
  /\ FeedReqs < MaxFeedReqs
  /\ feedLoads' = Append(feedLoads, LoadRequest(0, TRUE, 0))
  /\ UNCHANGED <<storeVars, nonFeedVars, feedMounted, feedPosts, feedLoading, feedHasMore,
                 feedPage, feedDels, feedLast>>

\* fetchMorePosts, called by InfiniteScroll, which is rendered with a
\* non-empty list and calls it while hasMore.  The page counter is capped at
\* the last page that MaxPosts posts can reach.
FetchMorePosts ==
  /\ feedMounted /\ Len(feedPosts) > 0 /\ feedHasMore
  /\ (feedPage + 1) * PostsPerPage < MaxPosts
  /\ FeedReqs < MaxFeedReqs
  /\ feedPage' = feedPage + 1
  /\ feedLoads' = Append(feedLoads, LoadRequest(feedPage + 1, FALSE, 0))
  /\ UNCHANGED <<storeVars, nonFeedVars, feedMounted, feedPosts, feedLoading, feedHasMore,
                 feedDels, feedLast>>

\* getPosts of a loadPosts call is answered by the server; the answer may be
\* lost on its way back.
FeedLoadServed ==
  \E i \in 1..Len(feedLoads), delivered \in BOOLEAN :
    /\ feedLoads[i].status = "sent"
    /\ feedLoads' = [feedLoads EXCEPT
         ![i].status = IF delivered THEN "ok" ELSE "error",
         ![i].result = IF delivered
                       THEN FeedRows(PostsPerPage, feedLoads[i].pageNum * PostsPerPage)
                       ELSE <<>>]
    /\ UNCHANGED <<storeVars, nonFeedVars, feedMounted, feedPosts, feedLoading,
                   feedHasMore, feedPage, feedDels, feedLast>>

\* Mutant of FeedLoadDone: hasMore is left true whatever the page holds.
FeedLoadDoneAlwaysMore ==
  \E i \in 1..Len(feedLoads) :
    LET req == feedLoads[i] IN
    /\ req.status = "ok"
    /\ feedPosts' = IF req.reset THEN req.result ELSE feedPosts \o req.result
    /\ feedHasMore' = TRUE
    /\ feedLoading' = FALSE
    /\ feedLoads' = RemoveAt(feedLoads, i)
    /\ feedLast' = IF req.post # 0
                   THEN [post |-> req.post, outcome |-> "loaded", effects |-> {}]
                   ELSE NoFeedStep
    /\ UNCHANGED <<storeVars, nonFeedVars, feedMounted, feedPage, feedDels>>

\* loadPosts after its await resolved: setPosts, setHasMore, setLoading(false)
FeedLoadDone ==
  \E i \in 1..Len(feedLoads) :
    LET req == feedLoads[i] IN
    /\ req.status = "ok"
    /\ feedPosts' = IF req.reset THEN req.result ELSE feedPosts \o req.result
    /\ feedHasMore' = (Len(req.result) = PostsPerPage)
    /\ feedLoading' = FALSE
    /\ feedLoads' = RemoveAt(feedLoads, i)
    /\ feedLast' = IF req.post # 0
                   THEN [post |-> req.post, outcome |-> "loaded", effects |-> {}]
                   ELSE NoFeedStep
    /\ UNCHANGED <<storeVars, nonFeedVars, feedMounted, feedPage, feedDels>>

\* loadPosts after its await rejected: console.error, setHasMore(false),
\* setLoading(false)
FeedLoadFailed ==
  \E i \in 1..Len(feedLoads) :
    LET req == feedLoads[i] IN
    /\ req.status = "error"
    /\ UNCHANGED feedPosts
    /\ feedHasMore' = FALSE
    /\ feedLoading' = FALSE
    /\ feedLoads' = RemoveAt(feedLoads, i)
    /\ feedLast' = IF req.post # 0
                   THEN [post |-> req.post, outcome |-> "load-failed",
                         effects |-> {"console.error"}]
                   ELSE NoFeedStep
    /\ UNCHANGED <<storeVars, nonFeedVars, feedMounted, feedPage, feedDels>>

\* PostCard.handleDelete of the card of feedPosts[i] up to its await: the
\* guard (onDelete is always passed by the feed), confirm(), the request.
HandleDelete ==
  /\ feedMounted
  /\ FeedReqs < MaxFeedReqs
  /\ \E i \in 1..Len(feedPosts), confirmed \in BOOLEAN :
       IF feedPosts[i].user_id # viewer \/ ~confirmed
       THEN UNCHANGED feedDels
       ELSE feedDels' = Append(feedDels,
              [post |-> feedPosts[i].id, user |-> viewer, status |-> "sent"])
  /\ UNCHANGED <<storeVars, nonFeedVars, feedMounted, feedPosts, feedLoading, feedHasMore,
                 feedPage, feedLoads, feedLast>>

\* deletePost reaches the server: a delete that matches no row of the caller
\* is no error.  The answer may be lost on its way back.
DeleteRequestServed ==
  \E i \in 1..Len(feedDels), delivered \in BOOLEAN :
    LET req == feedDels[i] IN
    /\ req.status = "sent"
    /\ IF \E r \in posts : r.id = req.post /\ r.user_id = req.user
       THEN ServerDeletePost(req.post, req.user)
       ELSE UNCHANGED storeVars
    /\ feedDels' = [feedDels EXCEPT ![i].status = IF delivered THEN "ok" ELSE "error"]
    /\ UNCHANGED <<nonFeedVars, feedMounted, feedPosts, feedLoading, feedHasMore,
                   feedPage, feedLoads, feedLast>>

\* deletePost never reaches the server, or the server answers with an error.
DeleteRequestLost ==
  \E i \in 1..Len(feedDels) :
    /\ feedDels[i].status = "sent"
    /\ feedDels' = [feedDels EXCEPT ![i].status = "error"]
    /\ UNCHANGED <<storeVars, nonFeedVars, feedMounted, feedPosts, feedLoading,
                   feedHasMore, feedPage, feedLoads, feedLast>>

\* handleDelete after its await resolved: onDelete(), which is
\* handlePostDelete: loadPosts(0, true)
DeleteCommitted ==
  \E i \in 1..Len(feedDels) :
    /\ feedDels[i].status = "ok"
    /\ feedDels' = RemoveAt(feedDels, i)
    /\ feedLoads' = Append(feedLoads, LoadRequest(0, TRUE, feedDels[i].post))
    /\ feedLast' = [post |-> feedDels[i].post, outcome |-> "deleted", effects |-> {}]
    /\ UNCHANGED <<storeVars, nonFeedVars, feedMounted, feedPosts, feedLoading,
                   feedHasMore, feedPage>>

\* Mutant of DeleteFailedLoads: the catch block reloads the feed as well.
DeleteFailedLoadsReload(req) == Append(feedLoads, LoadRequest(0, TRUE, req.post))

\* The loadPosts calls after a failed deletePost: onDelete() is skipped.
DeleteFailedLoads(req) == feedLoads

\* handleDelete after its await rejected: console.error and alert
DeleteFailed ==
  \E i \in 1..Len(feedDels) :
    /\ feedDels[i].status = "error"
    /\ feedDels' = RemoveAt(feedDels, i)
    /\ feedLoads' = DeleteFailedLoads(feedDels[i])
    /\ feedLast' = [post |-> feedDels[i].post, outcome |-> "failed",
                    effects |-> {"console.error", "alert"}]
    /\ UNCHANGED <<storeVars, nonFeedVars, feedMounted, feedPosts, feedLoading,
                   feedHasMore, feedPage>>

\* --------------------------------------------------------- CommentsDialog
NoDialogStep == [op |-> "none", outcome |-> "none", effects |-> {}]
Texts == {"", "hi"}   \* values of the textarea: empty, or a comment

InitComments ==
  /\ dlgOpen = FALSE
  /\ dlgPost = 0
  /\ dlgComments = <<>>
  /\ dlgNewComment = ""
  /\ dlgLoading = FALSE
  /\ dlgSubmitting = FALSE
  /\ dlgReqs = <<>>
  /\ dlgLast = NoDialogStep

\* commentsApi.getComments: the comments of the post, oldest first
GetCommentsQuery(p) ==
  LET rows == OrderAsc({c \in comments : c.post_id = p})
  IN [i \in 1..Len(rows) |->
        [id |-> rows[i].id, user_id |-> rows[i].user_id, created_at |-> rows[i].created_at]]

\* A call of a handler of the dialog up to its await
DialogRequest(op, comment, text) ==
  [op |-> op, post |-> dlgPost, user |-> viewer, comment |-> comment, text |-> text,
   status |-> "sent", result |-> <<>>]

\* The pending calls are kept in one order (load, create, delete by comment
\* id), whichever was started first: any of them can be answered next.
RequestKey(r) ==
  IF r.op = "load" THEN 0 ELSE IF r.op = "create" THEN 1 ELSE 1 + r.comment

AddRequest(reqs, r) ==
  LET k == Cardinality({i \in 1..Len(reqs) : RequestKey(reqs[i]) <= RequestKey(r)})
  IN [i \in 1..(Len(reqs) + 1) |->
        IF i <= k THEN reqs[i] ELSE IF i = k + 1 THEN r ELSE reqs[i - 1]]

\* The calls of handleSubmit and handleDelete that await their request
\* (loadComments is called once per mount)
PendingCalls ==
  Cardinality({i \in 1..Len(dlgReqs) : dlgReqs[i].op # "load"})

\* createComment calls that have not reached the server yet
PendingCreates ==
  Cardinality({i \in 1..Len(dlgReqs) : dlgReqs[i].op = "create" /\ dlgReqs[i].status = "sent"})

\* The comment button of the card of a post sets showComments: the dialog is
\* mounted with open = true and its effect calls loadComments.
CommentsOpen ==
  /\ ~dlgOpen
  /\ \E p \in 1..(nextPostId - 1) :
       /\ dlgPost' = p
       /\ dlgReqs' = AddRequest(dlgReqs,
             [DialogRequest("load", 0, "") EXCEPT !.post = p])
  /\ dlgOpen' = TRUE
  /\ dlgLoading' = TRUE
  /\ dlgLast' = NoDialogStep
  /\ UNCHANGED <<storeVars, nonDlgVars, dlgComments, dlgNewComment, dlgSubmitting>>

\* onOpenChange(false): the card stops rendering the dialog.  Its state is
\* gone, and the setters of the calls that still await a request have no
\* effect any more; what such a request still writes to the tables is a write
\* of OtherCreateComment or OtherDeleteComment.
CommentsClose ==
  /\ dlgOpen
  /\ dlgOpen' = FALSE
  /\ dlgPost' = 0
  /\ dlgComments' = <<>>
  /\ dlgNewComment' = ""
  /\ dlgLoading' = FALSE
  /\ dlgSubmitting' = FALSE
  /\ dlgReqs' = <<>>
  /\ dlgLast' = NoDialogStep
  /\ UNCHANGED <<storeVars, nonDlgVars>>

\* onChange of the textarea, rendered for a signed-in user and disabled while
\* submitting
SetNewComment ==
  /\ dlgOpen /\ viewer # NoUser /\ ~dlgSubmitting
  /\ dlgNewComment' \in Texts \ {dlgNewComment}
  /\ dlgLast' = NoDialogStep
  /\ UNCHANGED <<storeVars, nonDlgVars, dlgOpen, dlgPost, dlgComments, dlgLoading,
                 dlgSubmitting, dlgReqs>>

\* `if (!user || !newComment.trim() || submitting) return`
SubmitGuard == viewer = NoUser \/ dlgNewComment = "" \/ dlgSubmitting

\* Mutant of HandleSubmit: the comment is put into the list at the click,
\* before the request is answered.
HandleSubmitOptimistic ==
  /\ dlgOpen /\ viewer # NoUser
  /\ PendingCalls < MaxDlgReqs
  /\ RowsUsed + PendingCreates < MaxRows
  /\ IF SubmitGuard
     THEN UNCHANGED <<dlgSubmitting, dlgNewComment, dlgReqs, dlgComments>>
     ELSE /\ dlgSubmitting' = TRUE
          /\ dlgNewComment' = ""
          /\ dlgReqs' = AddRequest(dlgReqs, DialogRequest("create", 0, dlgNewComment))
          /\ dlgComments' = Append(dlgComments,
                [id |-> 0, user_id |-> viewer, created_at |-> nextCommentId])
  /\ dlgLast' = NoDialogStep
  /\ UNCHANGED <<storeVars, nonDlgVars, dlgOpen, dlgPost, dlgLoading>>

\* handleSubmit of the form up to its await
HandleSubmit ==
  /\ dlgOpen /\ viewer # NoUser
  /\ PendingCalls < MaxDlgReqs
  /\ RowsUsed + PendingCreates < MaxRows
  /\ IF SubmitGuard
     THEN UNCHANGED <<dlgSubmitting, dlgNewComment, dlgReqs>>
     ELSE /\ dlgSubmitting' = TRUE
          /\ dlgNewComment' = ""
          /\ dlgReqs' = AddRequest(dlgReqs, DialogRequest("create", 0, dlgNewComment))
  /\ dlgLast' = NoDialogStep
  /\ UNCHANGED <<storeVars, nonDlgVars, dlgOpen, dlgPost, dlgComments, dlgLoading>>

\* handleDelete(comment.id) up to its await: the button is rendered in the
\* loaded list for the viewer's own comments; confirm()
DialogHandleDelete ==
  /\ dlgOpen /\ ~dlgLoading
  /\ PendingCalls < MaxDlgReqs
  /\ \E i \in 1..Len(dlgComments), confirmed \in BOOLEAN :
       /\ dlgComments[i].user_id = viewer
       /\ IF confirmed
          THEN dlgReqs' = AddRequest(dlgReqs, DialogRequest("delete", dlgComments[i].id, ""))
          ELSE UNCHANGED dlgReqs
  /\ dlgLast' = NoDialogStep
  /\ UNCHANGED <<storeVars, nonDlgVars, dlgOpen, dlgPost, dlgComments, dlgNewComment,
                 dlgLoading, dlgSubmitting>>

\* A request of the dialog reaches the server.  getComments reads; createComment
\* inserts unless the post is gone (post_id REFERENCES posts) and returns the
\* row; deleteComment deletes the caller's row and is no error without one.
\* The answer to a write may be lost on its way back.
DialogRequestServed ==
  \E i \in 1..Len(dlgReqs), delivered \in BOOLEAN :
    LET req == dlgReqs[i]
        answer == IF delivered THEN "ok" ELSE "error"
    IN
    /\ req.status = "sent"
    /\ req.op = "load" => delivered
    /\ CASE req.op = "load" ->
            /\ dlgReqs' = [dlgReqs EXCEPT ![i].status = answer,
                 ![i].result = IF delivered THEN GetCommentsQuery(req.post) ELSE <<>>]
            /\ UNCHANGED storeVars
         [] req.op = "create" ->
            IF \E r \in posts : r.id = req.post
            THEN /\ ServerCreateComment(req.post, req.user)
                 /\ dlgReqs' = [dlgReqs EXCEPT ![i].status = answer,
                      ![i].result = IF delivered
                                    THEN <<[id |-> nextCommentId, user_id |-> req.user,
                                            created_at |-> nextCommentId]>>
                                    ELSE <<>>]
            ELSE /\ dlgReqs' = [dlgReqs EXCEPT ![i].status = "error"]
                 /\ UNCHANGED storeVars
         [] req.op = "delete" ->
            /\ IF \E r \in comments : r.id = req.comment /\ r.user_id = req.user
               THEN ServerDeleteComment(req.comment, req.user)
               ELSE UNCHANGED storeVars
            /\ dlgReqs' = [dlgReqs EXCEPT ![i].status = answer]
    /\ dlgLast' = NoDialogStep
    /\ UNCHANGED <<nonDlgVars, dlgOpen, dlgPost, dlgComments, dlgNewComment, dlgLoading,
                   dlgSubmitting>>

\* A request of the dialog never reaches the server.
DialogRequestLost ==
  \E i \in 1..Len(dlgReqs) :
    /\ dlgReqs[i].status = "sent"
    /\ dlgReqs' = [dlgReqs EXCEPT ![i].status = "error"]
    /\ dlgLast' = NoDialogStep
  /\ UNCHANGED <<storeVars, nonDlgVars, dlgOpen, dlgPost, dlgComments, dlgNewComment,
                   dlgLoading, dlgSubmitting>>

\* loadComments after its await resolved: setComments(data), setLoading(false)
LoadCommentsDone ==
  \E i \in 1..Len(dlgReqs) :
    /\ dlgReqs[i].op = "load" /\ dlgReqs[i].status = "ok"
    /\ dlgComments' = dlgReqs[i].result
    /\ dlgLoading' = FALSE
    /\ dlgReqs' = RemoveAt(dlgReqs, i)
    /\ dlgLast' = [op |-> "load", outcome |-> "ok", effects |-> {}]
    /\ UNCHANGED <<storeVars, nonDlgVars, dlgOpen, dlgPost, dlgNewComment, dlgSubmitting>>

\* loadComments after its await rejected: console.error, setLoading(false)
LoadCommentsFailed ==
  \E i \in 1..Len(dlgReqs) :
    /\ dlgReqs[i].op = "load" /\ dlgReqs[i].status = "error"
    /\ dlgLoading' = FALSE
    /\ dlgReqs' = RemoveAt(dlgReqs, i)
    /\ dlgLast' = [op |-> "load", outcome |-> "failed", effects |-> {"console.error"}]
    /\ UNCHANGED <<storeVars, nonDlgVars, dlgOpen, dlgPost, dlgComments, dlgNewComment,
                   dlgSubmitting>>

\* handleSubmit after its await resolved: the comment is appended, the
\* comment-added event dispatched, submitting cleared.
SubmitDone ==
  \E i \in 1..Len(dlgReqs) :
    LET req == dlgReqs[i] IN
    /\ req.op = "create" /\ req.status = "ok"
    /\ dlgComments' = dlgComments \o req.result
    /\ dlgSubmitting' = FALSE
    /\ dlgReqs' = RemoveAt(dlgReqs, i)
    /\ dlgLast' = [op |-> "create", outcome |-> "ok", effects |-> {"comment-added"}]
    /\ UNCHANGED <<storeVars, nonDlgVars, dlgOpen, dlgPost, dlgNewComment, dlgLoading>>

\* handleSubmit after its await rejected: console.error, alert, the text is
\* put back, submitting cleared.
SubmitFailed ==
  \E i \in 1..Len(dlgReqs) :
    LET req == dlgReqs[i] IN
    /\ req.op = "create" /\ req.status = "error"
    /\ dlgNewComment' = req.text
    /\ dlgSubmitting' = FALSE
    /\ dlgReqs' = RemoveAt(dlgReqs, i)
    /\ dlgLast' = [op |-> "create", outcome |-> "failed",
                   effects |-> {"console.error", "alert"}]
    /\ UNCHANGED <<storeVars, nonDlgVars, dlgOpen, dlgPost, dlgComments, dlgLoading>>

\* handleDelete after its await resolved: the comment is filtered out of the
\* list and the comment-deleted event dispatched.
DialogDeleteDone ==
  \E i \in 1..Len(dlgReqs) :
    LET req == dlgReqs[i] IN
    /\ req.op = "delete" /\ req.status = "ok"
    /\ dlgComments' =
         SelectSeqBy(dlgComments, {c \in Range(dlgComments) : c.id # req.comment})
    /\ dlgReqs' = RemoveAt(dlgReqs, i)
    /\ dlgLast' = [op |-> "delete", outcome |-> "ok", effects |-> {"comment-deleted"}]
    /\ UNCHANGED <<storeVars, nonDlgVars, dlgOpen, dlgPost, dlgNewComment, dlgLoading,
                   dlgSubmitting>>

\* Mutant of DialogDeleteFailed: the catch block dispatches comment-deleted.
DialogDeleteFailedDispatches ==
  \E i \in 1..Len(dlgReqs) :
    /\ dlgReqs[i].op = "delete" /\ dlgReqs[i].status = "error"
    /\ dlgReqs' = RemoveAt(dlgReqs, i)
    /\ dlgLast' = [op |-> "delete", outcome |-> "failed",
                   effects |-> {"console.error", "alert", "comment-deleted"}]
    /\ UNCHANGED <<storeVars, nonDlgVars, dlgOpen, dlgPost, dlgComments, dlgNewComment,
                   dlgLoading, dlgSubmitting>>

\* handleDelete after its await rejected: console.error and alert
DialogDeleteFailed ==
  \E i \in 1..Len(dlgReqs) :
    /\ dlgReqs[i].op = "delete" /\ dlgReqs[i].status = "error"
    /\ dlgReqs' = RemoveAt(dlgReqs, i)
    /\ dlgLast' = [op |-> "delete", outcome |-> "failed",
                   effects |-> {"console.error", "alert"}]
    /\ UNCHANGED <<storeVars, nonDlgVars, dlgOpen, dlgPost, dlgComments, dlgNewComment,
                   dlgLoading, dlgSubmitting>>

\* ------------------------------------------- the existence lookups
\* The error codes of an answer: none, PostgREST's "no (or more than one) row"
\* of single(), and two others (a policy error, a network failure).
NoRowCode == "PGRST116"
OtherErrorCodes == {"42501", "fetch"}
NoAnswer == [data |-> "null", error |-> "none"]
NoLookup == [api |-> "none", a |-> "none", b |-> "none"]

InitLookup ==
  /\ lkPc = "idle"
  /\ lkArgs = NoLookup
  /\ lkAnswer = NoAnswer
  /\ lkResult = FALSE

\* .single(): the row when exactly one row matches, the error PGRST116 otherwise
Single(n) ==
  IF n = 1 THEN [data |-> "row", error |-> "none"]
  ELSE [data |-> "null", error |-> NoRowCode]

\* Mutant of LookupThrows: `if (error) throw error`
LookupThrowsAnyError(answer) == answer.error # "none"

\* `if (error && error.code !== 'PGRST116') throw error`
LookupThrows(answer) == answer.error # "none" /\ answer.error # NoRowCode

\* `return !!data`
LookupValue(answer) == answer.data # "null"

\* likesApi.isLiked(postId, userId) or followsApi.isFollowing(followerId,
\* followingId) up to its await
LookupCall ==
  /\ lkPc = "idle"
  /\ \/ \E p \in PostIds, u \in Users : lkArgs' = [api |-> "isLiked", a |-> p, b |-> u]
     \/ \E f \in Users, g \in Users : lkArgs' = [api |-> "isFollowing", a |-> f, b |-> g]
  /\ lkPc' = "sent"
  /\ UNCHANGED <<storeVars, nonLkVars, lkAnswer, lkResult>>

\* The query is answered: single() over the matching rows, or an error of
\* another code with a null data.
LookupServed ==
  /\ lkPc = "sent"
  /\ \/ lkAnswer' = Single(IF lkArgs.api = "isLiked"
                            THEN likes[<<lkArgs.a, lkArgs.b>>]
                            ELSE follows[<<lkArgs.a, lkArgs.b>>])
     \/ \E code \in OtherErrorCodes : lkAnswer' = [data |-> "null", error |-> code]
  /\ lkPc' = "answered"
  /\ UNCHANGED <<storeVars, nonLkVars, lkArgs, lkResult>>

\* The call after its await: it throws or returns
LookupSettle ==
  /\ lkPc = "answered"
  /\ IF LookupThrows(lkAnswer)
     THEN lkPc' = "threw" /\ UNCHANGED lkResult
     ELSE lkPc' = "returned" /\ lkResult' = LookupValue(lkAnswer)
  /\ UNCHANGED <<storeVars, nonLkVars, lkArgs, lkAnswer>>

\* The caller takes the boolean or the exception
LookupReturn ==
  /\ lkPc \in {"returned", "threw"}
  /\ lkPc' = "idle"
  /\ lkArgs' = NoLookup
  /\ lkAnswer' = NoAnswer
  /\ lkResult' = FALSE
  /\ UNCHANGED <<storeVars, nonLkVars>>

Init == InitStore /\ InitGetPosts /\ InitAuth /\ InitCard /\ InitProfile /\ InitFeed /\ InitLookup
        /\ InitComments

NextGetPosts ==
  \/ OtherCreatePost \/ OtherDeletePost \/ OtherLikePost \/ OtherUnlikePost
  \/ OtherCreateComment \/ OtherDeleteComment
  \/ GetPostsCall \/ GetPostsPostsAnswer \/ GetPostsPostsError
  \/ GetPostsLikes \/ GetPostsComments \/ GetPostsUserLikes \/ GetPostsReturn

SpecGetPosts == Init /\ [][NextGetPosts]_vars

NextCard ==
  \/ OtherCreatePost \/ OtherDeletePost \/ OtherLikePost \/ OtherUnlikePost
  \/ StoreSetUser \/ CardMount \/ HandleLike
  \/ CardRequestServed \/ CardRequestLost \/ CardLikeCommitted \/ CardLikeFailed

SpecCard == Init /\ [][NextCard]_vars

\* The card when every request is answered or fails (there is no timeout and
\* no cancellation: the promise of the request settles), and the continuation
\* of a settled await is run by the event loop.
SpecCardFair ==
  /\ SpecCard
  /\ WF_vars(CardRequestServed \/ CardRequestLost)
  /\ WF_vars(CardLikeCommitted)
  /\ WF_vars(CardLikeFailed)

NextFollow ==
  \/ ApiFollowUser \/ ApiUnfollowUser \/ StoreSetUser \/ StoreFetchProfile
  \/ ProfileOpen \/ ProfileLoadProfile \/ ProfileLoadPosts \/ ProfileLoadCounts
  \/ ProfileLoadFollowing \/ ProfileLoadFailed
  \/ HandleFollow \/ FollowRequestServed \/ FollowRequestLost
  \/ FollowCommitted \/ FollowFailed

SpecFollow == Init /\ [][NextFollow]_vars

NextFeed ==
  \/ OtherCreatePost \/ OtherDeletePost \/ StoreSetUser
  \/ FeedMount \/ FeedCommentChange \/ FetchMorePosts
  \/ FeedLoadServed \/ FeedLoadDone \/ FeedLoadFailed
  \/ HandleDelete \/ DeleteRequestServed \/ DeleteRequestLost
  \/ DeleteCommitted \/ DeleteFailed

SpecFeed == Init /\ [][NextFeed]_vars

\* The tables when the dialog's card is on screen: the post of the card exists.
NextAuth ==
  \/ StoreSetUser \/ StoreSetSession
  \/ StoreSignOut \/ StoreSignOutServed \/ StoreSignOutDone \/ StoreSignOutThrown
  \/ FetchProfile \/ FetchProfileServed \/ FetchProfileDone \/ FetchProfileFailed

SpecAuth == Init /\ [][NextAuth]_vars

\* The profile page with no other client writing the follows table.
NextFollowAlone ==
  \/ StoreSetUser \/ StoreFetchProfile
  \/ ProfileOpen \/ ProfileLoadProfile \/ ProfileLoadPosts \/ ProfileLoadCounts
  \/ ProfileLoadFollowing \/ ProfileLoadFailed
  \/ HandleFollow \/ FollowRequestServed \/ FollowRequestLost
  \/ FollowCommitted \/ FollowFailed

SpecFollowAlone == Init /\ [][NextFollowAlone]_vars

\* The feed over a set of posts that does not change, with every fetch
\* succeeding.  The store holds fewer than MaxPosts posts, so that the page
\* after the last post is within the cap of FetchMorePosts.
InitStoreStatic ==
  /\ \E ids \in SUBSET PostIds, owner \in [PostIds -> Users] :
       /\ Cardinality(ids) < MaxPosts
       /\ posts = {[id |-> i, user_id |-> owner[i], created_at |-> i] : i \in ids}
  /\ likes = EmptyBag(PostIds \X Users)
  /\ comments = {}
  /\ follows = EmptyBag(Users \X Users)
  /\ nextPostId = MaxRows + 1
  /\ nextCommentId = 1

InitStatic ==
  /\ InitStoreStatic /\ InitGetPosts /\ InitAuth /\ InitCard /\ InitProfile /\ InitFeed
  /\ InitComments /\ InitLookup

\* getPosts of a loadPosts call is answered and the answer arrives.
FeedLoadSucceeds ==
  /\ FeedLoadServed
  /\ \A i \in 1..Len(feedLoads') : feedLoads'[i].status # "error"

NextFeedStatic ==
  \/ StoreSetUser
  \/ FeedMount \/ FetchMorePosts \/ FeedLoadSucceeds \/ FeedLoadDone

\* InfiniteScroll keeps calling next while hasMore, each fetch is answered,
\* and the continuation of loadPosts runs.
SpecFeedStatic ==
  /\ InitStatic /\ [][NextFeedStatic]_vars
  /\ WF_vars(FeedMount) /\ WF_vars(FetchMorePosts)
  /\ WF_vars(FeedLoadSucceeds) /\ WF_vars(FeedLoadDone)

NextLookup ==
  \/ OtherCreatePost \/ OtherLikePost \/ OtherUnlikePost
  \/ ApiFollowUser \/ ApiUnfollowUser
  \/ LookupCall \/ LookupServed \/ LookupSettle \/ LookupReturn

SpecLookup == Init /\ [][NextLookup]_vars

InitStoreWithPost ==
  /\ posts = {[id |-> 1, user_id |-> "u1", created_at |-> 1]}
  /\ likes = EmptyBag(PostIds \X Users)
  /\ comments = {}
  /\ follows = EmptyBag(Users \X Users)
  /\ nextPostId = 2
  /\ nextCommentId = 1

InitWithPost ==
  /\ InitStoreWithPost /\ InitGetPosts /\ InitAuth /\ InitCard /\ InitProfile /\ InitFeed
  /\ InitLookup
  /\ InitComments

NextComments ==
  \/ OtherCreateComment \/ OtherDeleteComment
  \/ StoreSetUser
  \/ CommentsOpen \/ CommentsClose \/ SetNewComment \/ HandleSubmit \/ DialogHandleDelete
  \/ DialogRequestServed \/ DialogRequestLost
  \/ LoadCommentsDone \/ LoadCommentsFailed \/ SubmitDone \/ SubmitFailed
  \/ DialogDeleteDone \/ DialogDeleteFailed

SpecComments == InitWithPost /\ [][NextComments]_vars

\* ===================================================================
\* Claims about postsApi.getPosts (specification SpecGetPosts)
\* ===================================================================

\* C1: a call of getPosts issues at most one posts query, one likes query, one
\* comments query and one viewer-likes query, the last only for an
\* authenticated viewer, whatever the page size and the number of posts.
C1_QueriesBounded ==
  /\ gpQueries.posts <= 1
  /\ gpQueries.likes <= 1
  /\ gpQueries.comments <= 1
  /\ gpQueries.userLikes <= 1
  /\ gpQueries.userLikes > 0 => gpArgs.currentUserId # NoUser

\* A finished call for an authenticated viewer with a page of two posts.
C1_Witness ==
  /\ gpPc = "done" /\ gpArgs.limit = 2 /\ Len(gpResult) = 2
  /\ gpQueries = [posts |-> 1, likes |-> 1, comments |-> 1, userLikes |-> 1]

\* C2: when the posts query answers with an empty (or null) page, getPosts
\* returns the empty sequence and issues no likes, comments or viewer-likes
\* query.
C2_EmptyPageShortCircuit ==
  /\ (gpPc = "done" /\ Len(OrEmpty(gpData)) = 0) =>
        /\ gpResult = <<>>
        /\ gpQueries = [posts |-> 1, likes |-> 0, comments |-> 0, userLikes |-> 0]
  /\ (gpQueries.likes + gpQueries.comments + gpQueries.userLikes > 0) =>
        Len(OrEmpty(gpData)) > 0

\* A finished call of an authenticated viewer whose page is empty although the
\* table holds posts (the offset is past the end, or the filter matches none).
C2_Witness ==
  /\ gpPc = "done" /\ gpQueries.posts = 1
  /\ ~gpData.isNull /\ Len(gpData.rows) = 0
  /\ posts # {} /\ gpArgs.currentUserId # NoUser

\* C10: getPosts returns exactly the posts of the fetched page, newest first,
\* only the target user's posts when a user id is given, and attaching the
\* derived fields drops, duplicates and reorders nothing.  The page is stated
\* from the table: the post at position i is the matching post that has
\* offset + i - 1 newer matching posts.
C10_Matching == {r \in posts : gpArgs.userId = NoUser \/ r.user_id = gpArgs.userId}
C10_Newer(r) == Cardinality({x \in C10_Matching : x.created_at > r.created_at})
C10_PageReturnedInOrder ==
  gpPc = "done" =>
    /\ Len(gpResult) = Len(OrEmpty(gpData))
    /\ \A i \in 1..Len(gpResult) : gpResult[i].id = gpData.rows[i].id
    /\ ~gpData.isNull =>
          /\ Len(gpResult) =
               Cardinality({r \in C10_Matching :
                              /\ C10_Newer(r) >= gpArgs.offset
                              /\ C10_Newer(r) < gpArgs.offset + gpArgs.limit})
          /\ \A i \in 1..Len(gpResult) :
               \E r \in C10_Matching :
                 /\ r.id = gpResult[i].id /\ r.user_id = gpResult[i].user_id
                 /\ C10_Newer(r) = gpArgs.offset + i - 1

\* A page of two posts of the target user, one of them with a like attached.
C10_Witness ==
  /\ gpPc = "done" /\ Len(gpResult) = 2 /\ gpArgs.userId # NoUser
  /\ \E i \in 1..Len(gpResult) : gpResult[i].likes_count > 0

\* ===================================================================
\* Claims about PostCard.handleLike (specification SpecCard)
\* ===================================================================

\* C3: from the click of an authenticated viewer on an idle card until the
\* like (unlike) request settles, the card shows the flipped flag and the
\* count it had before the click plus (minus) one.
C3_OptimisticWhilePending ==
  \A i \in 1..Len(cardReqs) :
    /\ cardIsLiked = ~cardReqs[i].before.liked
    /\ cardLikesCount =
         cardReqs[i].before.count + (IF cardReqs[i].before.liked THEN -1 ELSE 1)

\* A like of an unliked post with count 1 whose request the server has not
\* answered yet.
C3_Witness ==
  /\ Len(cardReqs) = 1
  /\ cardReqs[1].op = "like" /\ cardReqs[1].status = "sent"
  /\ cardReqs[1].before = [liked |-> FALSE, count |-> 1]
  /\ cardIsLiked /\ cardLikesCount = 2

\* C4: when the like or unlike request of a toggle fails, the flag and the
\* count are back at the values they had right before that toggle, and the
\* pending flag is cleared.
C4_RevertedOnFailure ==
  (cardLast.outcome = "reverted" /\ cardReqs = <<>>) =>
    /\ cardIsLiked = cardLast.before.liked
    /\ cardLikesCount = cardLast.before.count
    /\ ~cardIsLiking

\* A failed unlike of a post the card showed as liked with count 2.
C4_Witness ==
  /\ cardLast.outcome = "reverted" /\ cardReqs = <<>>
  /\ cardLast.before = [liked |-> TRUE, count |-> 2]
  /\ cardIsLiked /\ cardLikesCount = 2

\* C5: a call of handleLike while a toggle of the same card is pending changes
\* no local state and sends no request, so at most one like/unlike request of
\* a card is in flight.
C5_PendingToggleIgnored ==
  /\ [](Len(cardReqs) <= 1)
  /\ [][(cardIsLiking /\ ~cardIgnored /\ cardIgnored') =>
          UNCHANGED <<storeVars, cardIsLiked, cardLikesCount, cardIsLiking, cardReqs>>]_vars

\* A call of handleLike has been ignored while the request of an authenticated
\* viewer's toggle is in flight.
C5_Witness ==
  /\ viewer # NoUser /\ cardIgnored /\ cardIsLiking
  /\ Len(cardReqs) = 1 /\ cardReqs[1].status = "sent"

\* ===================================================================
\* Claims about follows (specification SpecFollow)
\* ===================================================================

\* C6: no follows row with follower_id = following_id ever exists: the profile
\* page sends no request to follow oneself, and a direct call of
\* followsApi.followUser with followerId = followingId ends with an error.
C6_NoSelfFollow ==
  /\ \A u \in Users : follows[<<u, u>>] = 0
  /\ \A i \in 1..Len(profReqs) : profReqs[i].follower # profReqs[i].following
  /\ (lastFollowCall.outcome # "none" /\ lastFollowCall.follower = lastFollowCall.following)
       => lastFollowCall.outcome = "error"

\* The viewer's own profile is shown and handleFollow returned at its guard,
\* and a direct followUser(u, u) has been rejected.
C6_Witness ==
  /\ profPc = "shown" /\ viewer # NoUser /\ profProfile = viewer /\ profIgnored
  /\ lastFollowCall.follower = lastFollowCall.following
  /\ lastFollowCall.outcome = "error"

\* ===================================================================
\* Claims about the feed (specification SpecFeed)
\* ===================================================================

\* C7: when the deletePost call of a card fails, the handler ends without
\* sending another delete request, the feed's list is left as it is, no
\* loadPosts call is started, and the failure is reported with an alert.
C7_DeleteFailureHandled ==
  [][(Len(feedDels') < Len(feedDels) /\ feedLast'.outcome = "failed")
      => /\ \E i \in 1..Len(feedDels) :
              /\ feedDels[i].status = "error"
              /\ feedDels[i].post = feedLast'.post
              /\ feedDels' = RemoveAt(feedDels, i)
         /\ feedPosts' = feedPosts
         /\ feedLoads' = feedLoads
         /\ "alert" \in feedLast'.effects
         /\ UNCHANGED storeVars]_vars

\* A deletePost call failed while the post is in the list.
C7_Witness ==
  /\ feedLast.outcome = "failed"
  /\ "alert" \in feedLast.effects
  /\ \E i \in 1..Len(feedPosts) : feedPosts[i].id = feedLast.post

\* C8: once the loadPosts call started by a successful deletion has settled,
\* with either outcome, the deleted post is not in the feed's list.
C8_DeletedPostGone ==
  (feedLast.outcome \in {"loaded", "load-failed"} /\ feedLast.post # 0)
    => \A i \in 1..Len(feedPosts) : feedPosts[i].id # feedLast.post

\* ===================================================================
\* Claims about the comments dialog (specification SpecComments)
\* ===================================================================

\* C9: once the calls of an open comments dialog have ended, its list is in
\* non-decreasing order of created_at.
C9_OldestFirst ==
  (dlgOpen /\ dlgReqs = <<>>)
    => \A i \in 1..Len(dlgComments), j \in 1..Len(dlgComments) :
          i < j => dlgComments[i].created_at <= dlgComments[j].created_at

\* ===================================================================
\* Claims about the derived fields of getPosts (specification SpecGetPosts)
\* ===================================================================

\* C11: in the result of getPosts, the likes_count of a post is the number of
\* rows of the likes answer with its id, comments_count the number of rows of
\* the comments answer with its id (0 without any, or without an answer), and
\* for an authenticated viewer is_liked says whether the viewer-likes answer
\* holds its id.
C11_Rows(data, p) == {j \in 1..Len(OrEmpty(data)) : OrEmpty(data)[j] = p}
C11_DerivedFields ==
  gpPc = "done" =>
    \A i \in 1..Len(gpResult) :
      /\ gpResult[i].likes_count = Cardinality(C11_Rows(gpLikesData, gpResult[i].id))
      /\ gpResult[i].comments_count = Cardinality(C11_Rows(gpCommentsData, gpResult[i].id))
      /\ gpArgs.currentUserId # NoUser =>
            (gpResult[i].is_liked <=> \E j \in 1..Len(gpUserLikes) :
                                         gpUserLikes[j] = gpResult[i].id)

\* A post of the result has two likes, one of them the viewer's.
C11_Witness ==
  /\ gpPc = "done" /\ gpArgs.currentUserId # NoUser
  /\ \E i \in 1..Len(gpResult) : gpResult[i].likes_count = 2 /\ gpResult[i].is_liked

\* C12: a call of getPosts without an authenticated viewer issues no
\* viewer-likes query and reports is_liked = false for every post.
C12_NoViewerNoLikeState ==
  gpArgs.currentUserId = NoUser =>
    /\ gpQueries.userLikes = 0
    /\ gpPc # "userLikes"
    /\ gpPc = "done" => \A i \in 1..Len(gpResult) : ~gpResult[i].is_liked

\* A call without a viewer returned a post that has a like.
C12_Witness ==
  /\ gpPc = "done" /\ gpArgs.currentUserId = NoUser
  /\ \E i \in 1..Len(gpResult) : gpResult[i].likes_count > 0

\* ===================================================================
\* Claims about the failure and the re-entrancy of the optimistic toggles
\* (specifications SpecCard and SpecFollow)
\* ===================================================================

\* C13: a like, unlike, follow or unfollow whose request failed has been
\* reverted and has shown the user a message (an alert).
C13_FailureSurfaced ==
  /\ cardLast.outcome = "reverted" => "alert" \in cardLast.effects
  /\ profLast.outcome = "reverted" => "alert" \in profLast.effects

\* C14: at most one follow or unfollow request of a profile view is in flight.
C14_OneFollowInFlight == Len(profReqs) <= 1

\* ===================================================================
\* Claims about handleSubmit and handleDelete of the comments dialog
\* (specification SpecComments)
\* ===================================================================

\* The pending calls of one handler
C15_Calls(reqs, op) == {i \in 1..Len(reqs) : reqs[i].op = op}

\* C15: handleSubmit leaves the list alone when it sends createComment and
\* while the call is pending; when the call has resolved it appends the
\* returned comment at the end of the list, and when the call has failed it
\* leaves the list as it is.
C15_AppendAfterResolve ==
  [][/\ Cardinality(C15_Calls(dlgReqs', "create")) > Cardinality(C15_Calls(dlgReqs, "create"))
          => dlgComments' = dlgComments
     /\ (dlgOpen' /\ dlgLast'.op = "create" /\ Len(dlgReqs') < Len(dlgReqs))
          => \E i \in C15_Calls(dlgReqs, "create") :
               /\ dlgReqs' = RemoveAt(dlgReqs, i)
               /\ IF dlgReqs[i].status = "ok"
                  THEN /\ Len(dlgReqs[i].result) = 1
                       /\ dlgComments' = Append(dlgComments, dlgReqs[i].result[1])
                  ELSE /\ dlgReqs[i].status = "error"
                       /\ dlgComments' = dlgComments
     /\ (dlgOpen /\ dlgOpen' /\ Len(dlgComments') > Len(dlgComments))
          => \/ dlgLast'.op = "create" /\ dlgLast'.outcome = "ok"
             \/ dlgLast'.op = "load"]_vars

\* A comment of the viewer has just been appended behind another comment.
C15_Witness ==
  /\ dlgOpen /\ dlgLast.op = "create" /\ dlgLast.outcome = "ok"
  /\ Len(dlgComments) = 2
  /\ dlgComments[2].user_id = viewer
  /\ dlgComments[1].created_at < dlgComments[2].created_at

\* C16: handleDelete is started only for a comment of the list that the
\* viewer wrote, and leaves the list alone until deleteComment has succeeded,
\* when it removes that comment; when the call has failed the list is as it
\* was, comment-deleted is not dispatched, and the failure is shown with an
\* alert.  While the dialog stays open a comment leaves the list in no other
\* way than a successful delete or a load.
C16_Ids(list) == {list[i].id : i \in 1..Len(list)}
C16_DeleteAfterSuccess ==
  [][/\ Cardinality(C15_Calls(dlgReqs', "delete")) > Cardinality(C15_Calls(dlgReqs, "delete"))
          => /\ dlgComments' = dlgComments
             /\ \E j \in C15_Calls(dlgReqs', "delete") :
                  /\ dlgReqs = RemoveAt(dlgReqs', j)
                  /\ dlgReqs'[j].status = "sent"
                  /\ \E i \in 1..Len(dlgComments) :
                       /\ dlgComments[i].id = dlgReqs'[j].comment
                       /\ dlgComments[i].user_id = viewer
     /\ (dlgOpen' /\ dlgLast'.op = "delete" /\ Len(dlgReqs') < Len(dlgReqs))
          => \E i \in C15_Calls(dlgReqs, "delete") :
               /\ dlgReqs' = RemoveAt(dlgReqs, i)
               /\ IF dlgReqs[i].status = "ok"
                  THEN /\ dlgReqs[i].comment \notin C16_Ids(dlgComments')
                       /\ C16_Ids(dlgComments') = C16_Ids(dlgComments) \ {dlgReqs[i].comment}
                       /\ dlgLast'.outcome = "ok"
                  ELSE /\ dlgComments' = dlgComments
                       /\ dlgLast'.outcome = "failed"
                       /\ "comment-deleted" \notin dlgLast'.effects
                       /\ "alert" \in dlgLast'.effects
     /\ (dlgOpen' /\ dlgOpen /\ C16_Ids(dlgComments) \ C16_Ids(dlgComments') # {})
          => \/ dlgLast'.op = "delete" /\ dlgLast'.outcome = "ok"
             \/ dlgLast'.op = "load"]_vars

\* A deleteComment call has just failed for the client although the server
\* deleted the row: the comment is still in the list.
C16_Witness ==
  /\ dlgOpen /\ dlgLast.op = "delete" /\ dlgLast.outcome = "failed"
  /\ Len(dlgComments) > 0
  /\ comments = {}

\* ===================================================================
\* Claims about the likes table (specification SpecCard)
\* ===================================================================

\* C17: the likes table never holds two rows for one (post_id, user_id),
\* whatever the order of the likePost requests of the card and of other
\* sessions, and a likePost request that meets an existing row of its pair is
\* answered with an error and inserts nothing.
C17_OneLikePerPair ==
  /\ [](\A k \in DOMAIN likes : likes[k] <= 1)
  /\ [][\A i \in 1..Len(cardReqs) :
          (/\ Len(cardReqs') = Len(cardReqs)
           /\ cardReqs[i].op = "like" /\ cardReqs[i].status = "sent"
           /\ cardReqs'[i].status # "sent"
           /\ likes[<<cardPost, cardReqs[i].user>>] >= 1)
            => /\ cardReqs'[i].status = "error"
               /\ likes' = likes]_vars

\* A likePost of the card was rejected: the card showed the post as not liked,
\* the row of the pair was already there, and the count was reverted.
C17_Witness ==
  /\ cardLast.outcome = "reverted"
  /\ ~cardLast.before.liked
  /\ cardPost # 0 /\ viewer # NoUser
  /\ likes[<<cardPost, viewer>>] = 1
  /\ ~cardIsLiked

\* ===================================================================
\* Claims about the session store (specification SpecAuth)
\* ===================================================================

\* C18: when a call of signOut has just completed, the store's user, session
\* and profile are all null.
C18_ResetOnSignOut ==
  authLast = "signOut" => (viewer = NoUser /\ authSession = NoUser /\ authProfile = NoUser)

\* signOut has just completed and reset the store, while a call of
\* fetchProfile whose query was answered has still to store its profile.
C18_Witness ==
  /\ authLast = "signOut"
  /\ viewer = NoUser /\ authSession = NoUser /\ authProfile = NoUser
  /\ \E i \in 1..Len(authFetches) : authFetches[i].status = "ok"

\* ===================================================================
\* Claims about loadProfile of the profile page (specification SpecFollow)
\* ===================================================================

\* C19: when the lookup of the route's username has failed, loadProfile has
\* sent no request but the lookup (no posts, counts or isFollowing query), the
\* page has been left for the feed, and loading is false.
C19_LookupFailureIsTerminal ==
  /\ (profPc = "left" /\ profProfile = NoUser)
       => (profQueries = {"profile"} /\ ~profLoading)
  /\ (profProfile = NoUser /\ profPc # "closed") => profQueries = {"profile"}
  /\ (profRoute \notin Users /\ profPc # "closed") => profPc \in {"profile", "left"}

\* The page was entered for a username without a profile row and has been left.
C19_Witness ==
  /\ profRoute = "nobody" /\ profPc = "left"
  /\ profQueries = {"profile"} /\ ~profLoading

\* ===================================================================
\* Claims about the errors of the queries inside getPosts
\* (specification SpecGetPosts)
\* ===================================================================

\* The queries of the running call that were answered with an error: the
\* `data` of such an answer is null.
C20_FailedQueries ==
  (IF gpQueries.likes > 0 /\ gpLikesData.isNull THEN {"likes"} ELSE {})
    \cup (IF gpQueries.comments > 0 /\ gpCommentsData.isNull THEN {"comments"} ELSE {})

\* C20: no error is swallowed: a call of getPosts one of whose likes and
\* comments queries failed does not end with a normal result (getPosts has no
\* diagnostic log, so the error would have to be thrown to the caller).
C20_NoSilentError ==
  (gpPc = "done" /\ Len(gpResult) > 0) => C20_FailedQueries = {}

\* ===================================================================
\* Claims about the failures of the feed's page fetches
\* (specification SpecFeed)
\* ===================================================================

\* C21: the step in which loadPosts handles the failure of its getPosts call
\* leaves the feed's list and its pagination state (hasMore, page) as they
\* were.
C21_FailedFetchKeepsState ==
  [][(\E i \in 1..Len(feedLoads) :
        feedLoads[i].status = "error" /\ feedLoads' = RemoveAt(feedLoads, i))
       => (feedPosts' = feedPosts /\ feedHasMore' = feedHasMore /\ feedPage' = feedPage)]_vars

\* ===================================================================
\* Claims about likesApi.isLiked and followsApi.isFollowing
\* (specification SpecLookup)
\* ===================================================================

\* C22: a lookup whose answer has the code PGRST116 returns false and does
\* not throw; a lookup returns true exactly when its answer holds a row; a
\* lookup whose answer has an error of any other code throws that error; and
\* a lookup throws in no other case.
C22_NoRowIsNotAnError ==
  /\ lkPc \in {"returned", "threw"} =>
       /\ lkAnswer.error = NoRowCode => (lkPc = "returned" /\ ~lkResult)
       /\ lkAnswer.error \in OtherErrorCodes => lkPc = "threw"
       /\ lkPc = "threw" => lkAnswer.error \in OtherErrorCodes
  /\ lkPc = "returned" => (lkResult <=> lkAnswer.data = "row")

\* isFollowing has returned false for a pair of users without a follows row,
\* whose answer was the error PGRST116.
C22_Witness ==
  /\ lkPc = "returned" /\ lkArgs.api = "isFollowing"
  /\ lkAnswer.error = NoRowCode /\ ~lkResult
  /\ follows[<<lkArgs.a, lkArgs.b>>] = 0

\* ===================================================================
\* Claims about the follow state of the profile page when no other client
\* writes the follows table (specification SpecFollowAlone)
\* ===================================================================

\* C23: when every call of handleFollow of the shown profile has settled,
\* isFollowing tells whether the follows table holds the row (viewer,
\* profile), and followersCount is the number of rows that follow the profile.
C23_SettledFollowStateMatchesStore ==
  (profPc = "shown" /\ viewer # NoUser /\ profReqs = <<>>)
    => /\ profIsFollowing <=> follows[<<viewer, profProfile>>] >= 1
       /\ profFollowersCount = FollowersCountQuery(profProfile)

\* ===================================================================
\* Claims about a submit that overlaps the dialog's load
\* (specification SpecComments)
\* ===================================================================

\* C24: a comment that a successful createComment call of the open dialog
\* put into the list, and that is still in the comments table, is in the list
\* when the dialog's last pending call has settled.  The dialog loads once,
\* when it is mounted with an empty list, so the comments in the list before
\* the load settles are those appended by handleSubmit.
C24_CreatedCommentStaysListed ==
  [][(/\ dlgOpen /\ dlgOpen'
      /\ dlgLast'.op = "load" /\ dlgLast'.outcome = "ok"
      /\ dlgReqs' = <<>>)
       => \A i \in 1..Len(dlgComments) :
            (\E c \in comments' : c.id = dlgComments[i].id)
              => dlgComments[i].id \in C16_Ids(dlgComments')]_vars

\* ===================================================================
\* Claims about fetchProfile overlapping signOut (specification SpecAuth)
\* ===================================================================

\* C25: when no call of signOut and no call of fetchProfile is pending, a
\* cached profile implies a signed-in user.
C25_ProfileImpliesUser ==
  (authSignOuts = <<>> /\ authFetches = <<>>)
    => (authProfile # NoUser => viewer # NoUser)

\* ===================================================================
\* Claims about the page counter and the list of the feed
\* (specification SpecFeed)
\* ===================================================================

\* C26: with no loadPosts call pending and hasMore true (every page fetched
\* so far was full), the list holds the pages 0..page, so its length is
\* (page + 1) * postsPerPage and the next load-more asks for the page that
\* follows the list.
C26_PageMatchesList ==
  (feedMounted /\ feedLoads = <<>> /\ feedHasMore /\ ~feedLoading)
    => Len(feedPosts) = (feedPage + 1) * PostsPerPage

\* C27: the feed's list never holds one post id twice.
C27_NoDuplicatePosts ==
  \A i \in 1..Len(feedPosts), j \in 1..Len(feedPosts) :
    feedPosts[i].id = feedPosts[j].id => i = j

\* ===================================================================
\* Claims about is_liked and likes_count of one getPosts result
\* (specification SpecGetPosts)
\* ===================================================================

\* C28: in the result of a getPosts call whose likes query was answered with
\* rows, a post with is_liked true has a likes_count of at least 1.
C28_LikedImpliesCounted ==
  (gpPc = "done" /\ ~gpLikesData.isNull)
    => \A i \in 1..Len(gpResult) : gpResult[i].is_liked => gpResult[i].likes_count >= 1

\* ===================================================================
\* Claims about the pending flag of the like toggle
\* (specification SpecCardFair)
\* ===================================================================

\* C29: a like toggle that has set isLiking is followed by a state in which
\* isLiking is false again, whether its request resolved or rejected.
C29_PendingEnds == cardIsLiking ~> ~cardIsLiking

\* A toggle whose request rejected has left the pending state.
C29_Witness ==
  /\ cardLast.outcome = "reverted"
  /\ ~cardIsLiking /\ cardReqs = <<>>

\* ===================================================================
\* Claims about the end of the feed's pagination
\* (specification SpecFeedStatic)
\* ===================================================================

====
